---- MODULE Spec2Model ----
(***************************************************************************)
(* A model of the pbr renderer: the film's Welford accumulators, the       *)
(* progressive render driver and its parallel pixel loop (src/src/main.rs),*)
(* the BVH (src/src/bvh.rs) against the scene's linear scan                *)
(* (src/src/scene.rs), the primitives' ray casts (src/src/objects.rs), the *)
(* media (src/src/medium.rs) and the random walk (src/src/path_trace.rs).  *)
(*                                                                         *)
(* Real numbers are modelled exactly: a scalar is a fraction n/d in lowest *)
(* terms, with d = 0 for the non-finite values of f64 (0/0 is NaN, 1/0 and *)
(* -1/0 the infinities).  Rounding error is not modelled.                  *)
(***************************************************************************)
EXTENDS Integers, Sequences, FiniteSets, TLC

(***************************************************************************)
(* Bounds of the model.                                                    *)
(***************************************************************************)
\* largest target budget S the driver is run with
MaxBudget == 6
\* pixels of the film (width * height)
NumPixels == 2
\* worker threads of the data-parallel pool
NumWorkers == 2
\* samples fed to the single accumulator of SpecWelford
MaxSamples == 5
\* primitives handed to Bvh::build
MaxObjs == 3
\* hero wavelengths drawn per nanometre of the visible range
HeroGrid == 2
\* values of [0, 1) a uniform random f64 is drawn from
RandomGrid == 6

(***************************************************************************)
(* Scalars (f64).                                                          *)
(***************************************************************************)
Abs(x) == IF x < 0 THEN -x ELSE x

Sgn(x) == IF x > 0 THEN 1 ELSE IF x < 0 THEN -1 ELSE 0

Min2(a, b) == IF a <= b THEN a ELSE b

Max2(a, b) == IF a >= b THEN a ELSE b

RECURSIVE Gcd(_, _)
Gcd(a, b) == IF b = 0 THEN a ELSE Gcd(b, a % b)

\* the fraction n/d, d /= 0, in lowest terms with a positive denominator
Frac(n, d) ==
    LET g == Gcd(Abs(n), Abs(d))
        s == IF d < 0 THEN -1 ELSE 1
    IN  [n |-> s * (n \div g), d |-> s * (d \div g)]

R(k) == [n |-> k, d |-> 1]

NaN == [n |-> 0, d |-> 0]

Inf(s) == [n |-> s, d |-> 0]

IsNaN(x) == x.d = 0 /\ x.n = 0

IsFinite(x) == x.d > 0

\* a + b in f64: NaN is absorbing, inf + (-inf) is NaN
FAdd(a, b) ==
    IF IsNaN(a) \/ IsNaN(b) THEN NaN
    ELSE IF a.d = 0 /\ b.d = 0 THEN (IF a.n = b.n THEN a ELSE NaN)
    ELSE IF a.d = 0 THEN a
    ELSE IF b.d = 0 THEN b
    ELSE Frac(a.n * b.d + b.n * a.d, a.d * b.d)

FNeg(a) == [n |-> -a.n, d |-> a.d]

FSub(a, b) == FAdd(a, FNeg(b))

\* a * b in f64: NaN is absorbing, inf * 0 is NaN
FMul(a, b) ==
    IF IsNaN(a) \/ IsNaN(b) THEN NaN
    ELSE IF a.d = 0 \/ b.d = 0
         THEN (IF a.n = 0 \/ b.n = 0 THEN NaN ELSE Inf(Sgn(a.n) * Sgn(b.n)))
    ELSE Frac(a.n * b.n, a.d * b.d)

\* a / b in f64: x/0 is an infinity, 0/0 and inf/inf are NaN (zeros are unsigned here)
FDiv(a, b) ==
    IF IsNaN(a) \/ IsNaN(b) THEN NaN
    ELSE IF b.d = 0 THEN (IF a.d = 0 THEN NaN ELSE R(0))
    ELSE IF b.n = 0 THEN (IF a.d /= 0 /\ a.n = 0 THEN NaN ELSE Inf(Sgn(a.n)))
    ELSE IF a.d = 0 THEN Inf(Sgn(a.n) * Sgn(b.n))
    ELSE Frac(a.n * b.d, a.d * b.n)

(***************************************************************************)
(* DVec3 and DVec4: componentwise arithmetic.                              *)
(***************************************************************************)
VAdd(a, b) == [i \in DOMAIN a |-> FAdd(a[i], b[i])]

VSub(a, b) == [i \in DOMAIN a |-> FSub(a[i], b[i])]

VMul(a, b) == [i \in DOMAIN a |-> FMul(a[i], b[i])]

VDivS(a, s) == [i \in DOMAIN a |-> FDiv(a[i], s)]

VScale(s, a) == [i \in DOMAIN a |-> FMul(s, a[i])]

V3(x, y, z) == <<R(x), R(y), R(z)>>

Vec3Zero == V3(0, 0, 0)

VHasNaN(a) == \E i \in DOMAIN a : IsNaN(a[i])

(***************************************************************************)
(* State.                                                                  *)
(***************************************************************************)
VARIABLES
    \* the render driver (main) and the film
    S,          \* target budget of samples per pixel
    j,          \* counter of the driver's batch loop
    last,       \* samples per pixel rendered by the batches so far
    to_render,  \* cumulative target of the current batch
    samples,    \* argument of the running render call
    pc,         \* where the driver is: loop, render, save, done, underflow
    film,       \* Film::data: pixel index -> Pixel
    task,       \* per pixel item of the parallel iterator: todo, running, done
    cur,        \* per worker: the pixel whose closure it runs, 0 when idle
    iter,       \* per pixel: iterations done of the closure's sample loop
    base,       \* per pixel: its count when the running render call began
    writers,    \* per pixel: the workers that wrote it during the render call
    ckpt,       \* the last checkpoint written: its label and the counts it saw
    \* one accumulator fed an arbitrary stream
    px,         \* the Pixel
    seen,       \* the samples accumulated so far, as a multiset
    \* Bvh::build and Bvh::raycast
    objs,       \* Bvh::objs: the primitives, indexed from 1 (the code's index + 1)
    ray,        \* the ray cast: origin and direction
    nodes,      \* the BvhNodes built so far: root 1, children of k are 2k and 2k+1
    work,       \* the pending calls of build_bvh_node, innermost first
    stack,      \* the traversal stack of raycast (node ids)
    closest,    \* raycast's closest hit so far
    t_hit,      \* raycast's t_hit
    b_pc,       \* build, cast, done, or panic
    \* one call of Object::raycast
    object,     \* the receiver: a Sphere, a Triangle or a Transform
    probe,      \* the arguments: origin and direction
    result,     \* the Option<RayHit> returned
    o_pc,       \* call or returned
    \* the coefficients of one medium at one position
    medium,     \* the Medium
    m_lambdas,  \* the wavelength quadruple
    m_pos,      \* the position
    majorant,   \* the value of Medium::majorant
    absorption, \* the value of Medium::absorption
    scattering, \* the value of Medium::scattering
    m_pc,       \* the call to make next: majorant, absorption, scattering, or done
    \* one call of path_trace
    w_scene,    \* scene: its objects and its lights
    w_pos,      \* pos
    w_dir,      \* dir
    w_medium,   \* medium
    throughput,
    w_radiance, \* radiance
    secondary_terminated,
    bounces,
    specular_bounce,
    w_hit,      \* hit
    hit_pos,
    old_dir,
    w_t,        \* t of the tracking loop
    w_p,        \* p of the tracking loop: the tentative collision point
    w_mp,       \* mp of the tracking loop: the properties read at the collision
    w_majorant, \* majorant of the tracking loop
    w_sample,   \* the last BrdfSample drawn
    raycasts,   \* the calls of scene.raycast made by the walk
    returned,   \* the value returned
    w_pc,       \* head, volume, surface, light, sample, advance, roulette, return,
                \* done, or panic
    \* one call of a function that keeps no state
    call,       \* the function called and its arguments
    ret,        \* the outcome of the call: the value returned, or a panic
    c_pc,       \* call or returned
    \* VoxelOctree::raycast
    octree,     \* the VoxelOctree: root, nodes, and the number of materials
    v_args,     \* the arguments: origin, direction, max_t
    trav,       \* the locals of raycast, under their names
    v_ret,      \* the Option<RayHit> returned
    v_pc,       \* enter, loop, done or panic
    \* the viewer (src/viewer)
    selected,   \* App::selected: the index of the image shown
    tonemappers, \* App::tonemappers: per image, its TonemapOptions
    jobs,       \* the threads spawned by process that have not sent their event yet
    mailbox,    \* the user events sent through the proxy and not yet handled
    texture,    \* Viewer::image: the tonemapped image last uploaded
    launched,   \* the jobs started so far, in the order of their start
    frame       \* the parity of the number of frames drawn

driverVars == <<S, j, last, to_render, samples, pc, film, task, cur, iter, base,
                writers, ckpt>>

welfordVars == <<px, seen>>

bvhVars == <<objs, ray, nodes, work, stack, closest, t_hit, b_pc>>

objectVars == <<object, probe, result, o_pc>>

mediumVars == <<medium, m_lambdas, m_pos, majorant, absorption, scattering, m_pc>>

walkVars == <<w_scene, w_pos, w_dir, w_medium, throughput, w_radiance, secondary_terminated,
              bounces, specular_bounce, w_hit, hit_pos, old_dir, w_t, w_p, w_mp, w_majorant,
              w_sample, raycasts, returned, w_pc>>

callVars == <<call, ret, c_pc>>

voxelVars == <<octree, v_args, trav, v_ret, v_pc>>

viewerVars == <<selected, tonemappers, jobs, mailbox, texture, launched, frame>>

vars == <<driverVars, welfordVars, bvhVars, objectVars, mediumVars, walkVars, callVars,
          voxelVars, viewerVars>>

Pixels == 1..NumPixels

Workers == 1..NumWorkers

(***************************************************************************)
(* Film: the Welford accumulator of a pixel.                               *)
(***************************************************************************)
PixelDefault == [mean |-> Vec3Zero, m2 |-> Vec3Zero, count |-> 0]

\* the update with the second difference taken against the old mean
AccumulateSampleStale(p, value) ==
    LET delta == VSub(value, p.mean)
        count == p.count + 1
    IN  [mean  |-> VAdd(p.mean, VDivS(delta, R(count))),
         m2    |-> VAdd(p.m2, VMul(delta, delta)),
         count |-> count]

AccumulateSample(p, value) ==
    LET delta  == VSub(value, p.mean)
        count  == p.count + 1
        mean   == VAdd(p.mean, VDivS(delta, R(count)))
        delta2 == VSub(value, mean)
    IN  [mean |-> mean, m2 |-> VAdd(p.m2, VMul(delta, delta2)), count |-> count]

SterrSq(p) == VDivS(VDivS(p.m2, R(p.count - 1)), R(p.count))

(***************************************************************************)
(* render: the value of one pixel sample.                                  *)
(***************************************************************************)
VisibleStart == 360

VisibleEnd == 830

\* the radiance path_trace returns for a sample: any quadruple, NaN included
RadianceVals ==
    { <<R(1), R(0), R(1), R(0)>>,
      <<R(0), NaN, R(0), R(0)>> }

\* lambda_to_xyz of the i-th wavelength of the quadruple (colour matching data)
LambdaToXyz(i) == <<V3(1, 0, 0), V3(0, 1, 0), V3(0, 0, 1), V3(1, 1, 0)>>[i]

RECURSIVE SumXyz(_, _, _)
SumXyz(radiance, pdf, i) ==
    IF i = 0 THEN Vec3Zero
    ELSE VAdd(SumXyz(radiance, pdf, i - 1),
              VScale(FDiv(FDiv(radiance[i], pdf), R(4)), LambdaToXyz(i)))

SampleValue(radiance) ==
    LET r   == VisibleEnd - VisibleStart
        pdf == FDiv(R(1), R(r))
    IN  SumXyz(radiance, pdf, 4)

(***************************************************************************)
(* main: the progressive batch loop.                                       *)
(***************************************************************************)
RECURSIVE Pow2(_)
Pow2(k) == IF k = 0 THEN 1 ELSE 2 * Pow2(k - 1)

Isqrt(n) == CHOOSE k \in 0..n : k * k <= n /\ (k + 1) * (k + 1) > n

\* sqrt(2^j) truncated instead of rounded
FloorPow(jj) == Isqrt(Pow2(jj))

\* 2.0f64.powf(j / 2.0).round(): sqrt(2^j) rounded to the nearest integer
RoundPow(jj) == (Isqrt(Pow2(jj + 2)) + 1) \div 2

ToRender(budget, jj) == Min2(budget, RoundPow(jj))

DriverInit ==
    /\ S \in 0..MaxBudget
    /\ j = 1
    /\ last = 0
    /\ to_render = 0
    /\ samples = 0
    /\ pc = "loop"
    /\ film = [p \in Pixels |-> PixelDefault]
    /\ task = [p \in Pixels |-> "done"]
    /\ cur = [w \in Workers |-> 0]
    /\ iter = [p \in Pixels |-> 0]
    /\ base = [p \in Pixels |-> 0]
    /\ writers = [p \in Pixels |-> {}]
    /\ ckpt = [label |-> 0, counts |-> [p \in Pixels |-> 0]]

\* one pass of for j in 1.. up to the call of render: break when the target
\* has not moved; to_render - last is a u32 subtraction, which panics or wraps
\* when to_render < last; otherwise render(&mut film, to_render - last, ..)
\* sets up the parallel iterator over the pixels
DriverLoop ==
    /\ pc = "loop"
    /\ to_render' = ToRender(S, j)
    /\ IF ToRender(S, j) = last
       THEN /\ pc' = "done"
            /\ UNCHANGED <<samples, task, iter, base, writers>>
       ELSE IF ToRender(S, j) < last
       THEN /\ pc' = "underflow"
            /\ UNCHANGED <<samples, task, iter, base, writers>>
       ELSE /\ pc' = "render"
            /\ samples' = ToRender(S, j) - last
            /\ task' = [p \in Pixels |-> "todo"]
            /\ iter' = [p \in Pixels |-> 0]
            /\ base' = [p \in Pixels |-> film[p].count]
            /\ writers' = [p \in Pixels |-> {}]
    /\ UNCHANGED <<S, j, last, film, cur, ckpt>>

\* an iterator that hands out a pixel another closure call still holds
CanTakeShared(p) == task[p] /= "done"

\* par_iter_mut hands each &mut Pixel to one closure call
CanTake(p) == task[p] = "todo"

Take(w, p) ==
    /\ pc = "render"
    /\ cur[w] = 0
    /\ CanTake(p)
    /\ cur' = [cur EXCEPT ![w] = p]
    /\ task' = [task EXCEPT ![p] = "running"]
    /\ UNCHANGED <<S, j, last, to_render, samples, pc, film, iter, base, writers, ckpt>>

\* one iteration of for _ in 0..samples: path_trace, then accumulate_sample
SampleStep(w) ==
    /\ pc = "render"
    /\ cur[w] /= 0
    /\ iter[cur[w]] < samples
    /\ \E radiance \in RadianceVals :
          film' = [film EXCEPT ![cur[w]] = AccumulateSample(@, SampleValue(radiance))]
    /\ iter' = [iter EXCEPT ![cur[w]] = @ + 1]
    /\ writers' = [writers EXCEPT ![cur[w]] = @ \cup {w}]
    /\ UNCHANGED <<S, j, last, to_render, samples, pc, task, cur, base, ckpt>>

\* the closure returns; the worker is free for the next item
Finish(w) ==
    /\ pc = "render"
    /\ cur[w] /= 0
    /\ iter[cur[w]] >= samples
    /\ task' = [task EXCEPT ![cur[w]] = "done"]
    /\ cur' = [cur EXCEPT ![w] = 0]
    /\ UNCHANGED <<S, j, last, to_render, samples, pc, film, iter, base, writers, ckpt>>

\* a return as soon as one item has been processed
JoinReadyAny == \E p \in Pixels : task[p] = "done"

\* for_each returns once every item has been processed
JoinReady == \A p \in Pixels : task[p] = "done"

\* render returns; last = to_render
Join ==
    /\ pc = "render"
    /\ JoinReady
    /\ last' = to_render
    /\ pc' = "save"
    /\ UNCHANGED <<S, j, to_render, samples, film, task, cur, iter, base, writers, ckpt>>

\* film.save(format!("partial/{to_render}.png")), then the next j
Save ==
    /\ pc = "save"
    /\ ckpt' = [label |-> to_render, counts |-> [p \in Pixels |-> film[p].count]]
    /\ j' = j + 1
    /\ pc' = "loop"
    /\ UNCHANGED <<S, last, to_render, samples, film, task, cur, iter, base, writers>>

(***************************************************************************)
(* One accumulator fed an arbitrary stream of finite samples.              *)
(***************************************************************************)
StreamVals == { V3(0, 0, 0), V3(1, 2, 0), V3(4, 0, 3), V3(-2, 1, 1) }

WelfordInit ==
    /\ px = PixelDefault
    /\ seen = [v \in StreamVals |-> 0]

Accumulate(v) ==
    /\ px.count < MaxSamples
    /\ px' = AccumulateSample(px, v)
    /\ seen' = [seen EXCEPT ![v] = @ + 1]

(***************************************************************************)
(* Geometry on a lattice.  Lengths are integers in units of half the       *)
(* self-intersection guard 1.0e-12, directions are the six axis directions *)
(* (unit vectors with exact zero components), and the scenes drawn are     *)
(* those whose square roots are exact, so every value below is the value   *)
(* f64 computes.  TInf is f64::INFINITY, TNaN the NaN of 0.0/0.0.          *)
(***************************************************************************)
TInf == 1000000

TNaN == TInf + TInf

GuardEps == 2

PointPad == 2000

IDot(a, b) == a[1] * b[1] + a[2] * b[2] + a[3] * b[3]

IAdd(a, b) == <<a[1] + b[1], a[2] + b[2], a[3] + b[3]>>

ISub(a, b) == <<a[1] - b[1], a[2] - b[2], a[3] - b[3]>>

IScale(k, a) == <<k * a[1], k * a[2], k * a[3]>>

IsSquare(n) == n >= 0 /\ Isqrt(n) * Isqrt(n) = n

\* f64::min and f64::max: a NaN operand is ignored
TMin(a, b) == IF a = TNaN THEN b ELSE IF b = TNaN THEN a ELSE Min2(a, b)

TMax(a, b) == IF a = TNaN THEN b ELSE IF b = TNaN THEN a ELSE Max2(a, b)

\* x / d for a direction component d in {-1, 0, 1}
TDiv(x, d) ==
    IF d = 1 THEN x
    ELSE IF d = -1 THEN -x
    ELSE IF x > 0 THEN TInf
    ELSE IF x < 0 THEN -TInf
    ELSE TNaN

(***************************************************************************)
(* Bounds (src/src/main.rs).                                               *)
(***************************************************************************)
BoundsPoint(p) ==
    [min |-> <<p[1] - PointPad, p[2] - PointPad, p[3] - PointPad>>,
     max |-> <<p[1] + PointPad, p[2] + PointPad, p[3] + PointPad>>]

BoundsUnion(a, b) ==
    [min |-> [i \in 1..3 |-> Min2(a.min[i], b.min[i])],
     max |-> [i \in 1..3 |-> Max2(a.max[i], b.max[i])]]

Centroid(b) == [i \in 1..3 |-> (b.min[i] + b.max[i]) \div 2]

\* Bounds::ray_intersect(..).is_some()
RayIntersect(b, origin, dir, t_max) ==
    LET t_l    == [i \in 1..3 |-> TDiv(b.min[i] - origin[i], dir[i])]
        t_u    == [i \in 1..3 |-> TDiv(b.max[i] - origin[i], dir[i])]
        t_near == [i \in 1..3 |-> TMin(t_l[i], t_u[i])]
        t_far  == [i \in 1..3 |-> TMax(t_l[i], t_u[i])]
        t_0    == TMax(TMax(t_near[1], TMax(t_near[2], t_near[3])), 0)
        t_1    == TMin(TMin(t_far[1], TMin(t_far[2], t_far[3])), t_max)
    IN  t_0 /= TNaN /\ t_1 /= TNaN /\ t_0 <= t_1

(***************************************************************************)
(* RayHit and Sphere (src/src/objects.rs).  A normal is a record [v, q]    *)
(* standing for the vector v / sqrt(q), v an integer vector; q = 0 stands  *)
(* for a vector of NaN components.                                         *)
(***************************************************************************)
NaNNormal == [v |-> <<0, 0, 0>>, q |-> 0]

\* DVec3::normalize: v / |v|; the zero vector gives NaN components
Normalize(n) ==
    IF n.q = 0 \/ n.v = <<0, 0, 0>> THEN NaNNormal
    ELSE [v |-> n.v, q |-> IDot(n.v, n.v)]

NoHit == [some |-> FALSE, t |-> TInf, normal |-> NaNNormal, geo_normal |-> NaNNormal,
          index |-> 0]

SphereRaycast(sph, origin, direction) ==
    LET o    == ISub(origin, sph.origin)
        b    == 2 * IDot(o, direction)
        c    == IDot(o, o) - sph.radius * sph.radius
        det  == b * b - 4 * 1 * c
        sqrt == Isqrt(det)
        t0   == (-b - sqrt) \div 2
        t1   == (-b + sqrt) \div 2
        t    == IF t0 > 0 THEN t0 ELSE t1
        normal == Normalize([v |-> IAdd(o, IScale(t, direction)), q |-> 1])
    IN  IF det < 0 THEN NoHit
        ELSE IF t1 < 0 THEN NoHit
        ELSE [some |-> TRUE, t |-> t, normal |-> normal, geo_normal |-> normal,
              index |-> 0]

SphereBounds(sph) ==
    [min |-> [i \in 1..3 |-> sph.origin[i] - sph.radius],
     max |-> [i \in 1..3 |-> sph.origin[i] + sph.radius]]

\* the square roots of SphereRaycast are exact for this sphere and ray
ExactFor(sph, origin, direction) ==
    LET o   == ISub(origin, sph.origin)
        b   == 2 * IDot(o, direction)
        det == b * b - 4 * (IDot(o, o) - sph.radius * sph.radius)
    IN  det < 0 \/ IsSquare(det)

\* hit.t < t_max - hit.normal.dot(direction) * 1.0e-12
Closer(hit, direction, t_max) ==
    LET len == Isqrt(hit.normal.q)
    IN  hit.t * len < t_max * len - IDot(hit.normal.v, direction) * GuardEps

(***************************************************************************)
(* Scene::raycast: the linear scan (src/src/scene.rs).                     *)
(***************************************************************************)
RECURSIVE ScanFrom(_, _, _, _, _)
ScanFrom(os, i, r, max_t, best) ==
    IF i > Len(os) THEN best
    ELSE LET hit == SphereRaycast(os[i], r.origin, r.direction)
         IN  IF hit.some /\ Closer(hit, r.direction, max_t)
             THEN ScanFrom(os, i + 1, r, hit.t, [hit EXCEPT !.index = i])
             ELSE ScanFrom(os, i + 1, r, max_t, best)

SceneRaycast(os, r) == ScanFrom(os, 1, r, TInf, NoHit)

(***************************************************************************)
(* Bvh::build (src/src/bvh.rs).                                            *)
(***************************************************************************)
SphereChoices ==
    { [origin |-> <<x, y, 0>>, radius |-> rad] : x \in {0, 3}, y \in {0, 1}, rad \in {1, 2} }

RayChoices ==
    { [origin |-> <<-5, 0, 0>>, direction |-> <<1, 0, 0>>],
      [origin |-> <<-5, 1, 0>>, direction |-> <<1, 0, 0>>],
      [origin |-> <<-5, 2, 0>>, direction |-> <<1, 0, 0>>],
      [origin |-> <<3, 0, 0>>, direction |-> <<-1, 0, 0>>],
      [origin |-> <<0, 5, 0>>, direction |-> <<0, -1, 0>>],
      [origin |-> <<3, 0, -4>>, direction |-> <<0, 0, 1>>] }

RECURSIVE UnionBounds(_, _)
UnionBounds(os, idx) ==
    IF Len(idx) = 1 THEN SphereBounds(os[idx[1]])
    ELSE BoundsUnion(UnionBounds(os, SubSeq(idx, 1, Len(idx) - 1)),
                     SphereBounds(os[idx[Len(idx)]]))

RECURSIVE UnionCentroids(_, _)
UnionCentroids(os, idx) ==
    IF Len(idx) = 1 THEN BoundsPoint(Centroid(SphereBounds(os[idx[1]])))
    ELSE BoundsUnion(UnionCentroids(os, SubSeq(idx, 1, Len(idx) - 1)),
                     BoundsPoint(Centroid(SphereBounds(os[idx[Len(idx)]]))))

\* the axis of largest centroid extent
SplitDim(cb) ==
    LET size == ISub(cb.max, cb.min)
    IN  IF size[1] >= size[2] /\ size[1] >= size[3] THEN 1
        ELSE IF size[2] >= size[3] THEN 2
        ELSE 3

\* the median taken one place too low
SplitIndexLow(n) == (n - 1) \div 2

SplitIndex(n) == n \div 2

\* select_nth_unstable_by_key(split, key): any reordering of the slice with the
\* element at (0-based) position split in its sorted place, no greater key
\* before it and no smaller key after it
SelectNth(os, idx, split, dim) ==
    LET n      == Len(idx)
        key(k) == Centroid(SphereBounds(os[k]))[dim]
    IN  { [i \in 1..n |-> idx[f[i]]] :
            f \in { g \in [1..n -> 1..n] :
                      /\ \A a, b \in 1..n : a /= b => g[a] /= g[b]
                      /\ \A a \in 1..split : key(idx[g[a]]) <= key(idx[g[split + 1]])
                      /\ \A a \in (split + 2)..n : key(idx[g[a]]) >= key(idx[g[split + 1]]) } }

BvhInit ==
    /\ objs \in UNION { [1..n -> SphereChoices] : n \in 1..MaxObjs }
    /\ ray \in RayChoices
    /\ \A i \in DOMAIN objs : ExactFor(objs[i], ray.origin, ray.direction)
    /\ nodes = << >>
    /\ work = << [id |-> 1, idx |-> [i \in DOMAIN objs |-> i]] >>
    /\ stack = << >>
    /\ closest = NoHit
    /\ t_hit = TInf
    /\ b_pc = "build"

\* one call of build_bvh_node, up to its two recursive calls
BuildStep ==
    /\ b_pc = "build"
    /\ work /= << >>
    /\ LET id  == Head(work).id
           idx == Head(work).idx
       IN  IF Len(idx) = 0
           THEN \* reduce(..) over no element is None: unwrap() panics
                /\ b_pc' = "panic"
                /\ UNCHANGED <<nodes, work, stack>>
           ELSE IF Len(idx) = 1
           THEN /\ nodes' = (id :> [bounds |-> UnionBounds(objs, idx), leaf |-> TRUE,
                                    index |-> idx[1]]) @@ nodes
                /\ work' = Tail(work)
                /\ IF Tail(work) = << >>
                   THEN b_pc' = "cast" /\ stack' = <<1>>
                   ELSE UNCHANGED <<b_pc, stack>>
           ELSE LET dim   == SplitDim(UnionCentroids(objs, idx))
                    split == SplitIndex(Len(idx))
                IN  \E sel \in SelectNth(objs, idx, split, dim) :
                       /\ nodes' = (id :> [bounds |-> UnionBounds(objs, idx),
                                           leaf |-> FALSE, index |-> 0]) @@ nodes
                       /\ work' = << [id |-> 2 * id, idx |-> SubSeq(sel, 1, split)],
                                     [id |-> 2 * id + 1,
                                      idx |-> SubSeq(sel, split + 1, Len(sel))] >>
                                  \o Tail(work)
                       /\ UNCHANGED <<b_pc, stack>>
    /\ UNCHANGED <<objs, ray, closest, t_hit>>

(***************************************************************************)
(* Bvh::raycast (src/src/bvh.rs).                                          *)
(***************************************************************************)
\* one iteration of while let Some(node) = stack.pop(); the last pushed is on top
RaycastStep ==
    /\ b_pc = "cast"
    /\ stack /= << >>
    /\ LET node == nodes[Head(stack)]
           rest == Tail(stack)
           into(k) == RayIntersect(nodes[k].bounds, ray.origin, ray.direction, t_hit)
       IN  IF ~RayIntersect(node.bounds, ray.origin, ray.direction, t_hit)
           THEN stack' = rest /\ UNCHANGED <<closest, t_hit>>
           ELSE IF node.leaf
           THEN LET hit == SphereRaycast(objs[node.index], ray.origin, ray.direction)
                IN  /\ stack' = rest
                    /\ IF hit.some /\ Closer(hit, ray.direction, t_hit)
                       THEN /\ t_hit' = hit.t
                            /\ closest' = [hit EXCEPT !.index = node.index]
                       ELSE UNCHANGED <<closest, t_hit>>
           ELSE /\ stack' =
                      (IF into(2 * Head(stack) + 1) THEN <<2 * Head(stack) + 1>> ELSE << >>)
                      \o (IF into(2 * Head(stack)) THEN <<2 * Head(stack)>> ELSE << >>)
                      \o rest
                /\ UNCHANGED <<closest, t_hit>>
    /\ UNCHANGED <<objs, ray, nodes, work, b_pc>>

\* the stack is empty: raycast returns closest
RaycastReturn ==
    /\ b_pc = "cast"
    /\ stack = << >>
    /\ b_pc' = "done"
    /\ UNCHANGED <<objs, ray, nodes, work, stack, closest, t_hit>>

(***************************************************************************)
(* Triangle and Transform (src/src/objects.rs).  Object::raycast is        *)
(* modelled as the set of hits the call can return; t is a fraction here.  *)
(***************************************************************************)
ICross(a, b) ==
    <<a[2] * b[3] - b[2] * a[3], a[3] * b[1] - b[3] * a[1], a[1] * b[2] - b[1] * a[2]>>

PerpDot(a, b) == a[1] * b[2] - a[2] * b[1]

\* f64::signum: the sign bit, which a zero of the integer model does not carry
Signum(x) == IF x > 0 THEN {1} ELSE IF x < 0 THEN {-1} ELSE {1, -1}

SphereHits(sph, origin, direction) ==
    LET hit == SphereRaycast(sph, origin, direction)
    IN  { [some |-> hit.some, t |-> R(hit.t), normal |-> hit.normal,
           geo_normal |-> hit.geo_normal] }

None == [some |-> FALSE, t |-> R(0), normal |-> NaNNormal, geo_normal |-> NaNNormal]

\* the permutation (i_x, i_y, i_z) that makes the largest component of d the last
Permute(d) ==
    IF Abs(d[1]) >= Abs(d[2]) /\ Abs(d[1]) >= Abs(d[3]) THEN <<2, 3, 1>>
    ELSE IF Abs(d[2]) >= Abs(d[3]) THEN <<3, 1, 2>>
    ELSE <<1, 2, 3>>

TriangleRaycast(tri, origin, direction) ==
    LET n     == ICross(ISub(tri.c, tri.b), ISub(tri.a, tri.b))
        i     == Permute(direction)
        perm(v) == <<v[i[1]], v[i[2]], v[i[3]]>>
        d     == perm(direction)
        a     == perm(ISub(tri.a, origin))
        b     == perm(ISub(tri.b, origin))
        c     == perm(ISub(tri.c, origin))
        shear == <<d[1] \div d[3], d[2] \div d[3]>>
        xy(v) == <<v[1] - v[3] * shear[1], v[2] - v[3] * shear[2]>>
        e_a   == PerpDot(xy(b), xy(c))
        e_b   == PerpDot(xy(c), xy(a))
        e_c   == PerpDot(xy(a), xy(b))
        e     == <<e_a, e_b, e_c>>
        det   == e_a + e_b + e_c
        \* scale = 1 / det, t = (..) * scale / d.z
        t     == Frac(a[3] * e_a + b[3] * e_b + c[3] * e_c, det * d[3])
        interp == IAdd(IScale(e_a, tri.a_n), IAdd(IScale(e_b, tri.b_n), IScale(e_c, tri.c_n)))
        smooth == Normalize([v |-> IScale(Sgn(det), interp), q |-> 1])
        flat   == [v |-> n, q |-> 1]
    IN  IF IDot(n, n) = 0 THEN {None}
        ELSE IF (\E k \in 1..3 : e[k] < 0) /\ (\E k \in 1..3 : e[k] > 0) THEN {None}
        ELSE IF det = 0 THEN {None}
        ELSE IF t.n < 0 THEN {None}
        ELSE { [some |-> TRUE, t |-> t,
                normal |-> IF <<sa, sb, sc>> = <<sn, sn, sn>> THEN smooth ELSE flat,
                geo_normal |-> flat] :
                  sa \in Signum(IDot(tri.a_n, direction)),
                  sb \in Signum(IDot(tri.b_n, direction)),
                  sc \in Signum(IDot(tri.c_n, direction)),
                  sn \in Signum(IDot(n, direction)) }

\* a rotation about z by quarter turns
RECURSIVE RotZ(_, _)
RotZ(turns, v) == IF turns = 0 THEN v ELSE RotZ(turns - 1, <<-v[2], v[1], v[3]>>)

\* Transform.inverse: the inverse of a rotation about z by xf.turns quarter turns,
\* a uniform scale by 1 / xf.shrink and a translation by xf.offset
InverseVector3(xf, v) == IScale(xf.shrink, RotZ(4 - xf.turns, v))

InversePoint3(xf, p) == InverseVector3(xf, ISub(p, xf.offset))

\* Transform.transform.transform_vector3 of a normal
TransformVector3(xf, n) ==
    [v |-> RotZ(xf.turns, n.v), q |-> n.q * xf.shrink * xf.shrink]

PrimitiveRaycast(o, origin, direction) ==
    IF o.kind = "sphere" THEN SphereHits(o, origin, direction)
    ELSE TriangleRaycast(o, origin, direction)

TransformRaycast(o, origin, direction) ==
    LET orig_transformed == InversePoint3(o.xf, origin)
        dir_transformed  == InverseVector3(o.xf, direction)
    IN  { IF hit.some
          THEN [hit EXCEPT
                  !.normal = Normalize(TransformVector3(o.xf, hit.normal)),
                  !.geo_normal = Normalize(TransformVector3(o.xf, hit.geo_normal))]
          ELSE hit :
          hit \in PrimitiveRaycast(o.obj, orig_transformed, dir_transformed) }

\* the objects and rays of the raycast calls explored
Sizes == {1, 2, 3}

SphereObjects == { [kind |-> "sphere", origin |-> <<0, 0, 0>>, radius |-> r] : r \in Sizes }

TriangleObjects ==
    { [kind |-> "triangle", a |-> <<0, 0, 0>>, b |-> IScale(2 * s, p[1]),
       c |-> IScale(2 * s, p[2]), a_n |-> vn, b_n |-> vn, c_n |-> vn] :
         s \in Sizes,
         p \in { <<(<<1, 0, 0>>), (<<0, 1, 0>>)>>, <<(<<0, 1, 0>>), (<<1, 0, 0>>)>>,
                 <<(<<1, 0, 0>>), (<<1, 0, 0>>)>> },
         vn \in { <<0, 0, 1>>, <<0, 0, -1>> } }

Transforms ==
    { [turns |-> tu, shrink |-> k, offset |-> off] :
        tu \in {0, 1}, k \in {1, 2}, off \in { <<0, 0, 0>>, <<1, 0, 0>> } }

TransformObjects ==
    { [kind |-> "transform", xf |-> xf, obj |-> o] :
        xf \in Transforms, o \in SphereObjects \cup TriangleObjects }

ProbeRays ==
    { [origin |-> <<0, 0, 5>>, direction |-> <<0, 0, -1>>],
      [origin |-> <<1, 1, 5>>, direction |-> <<0, 0, -1>>],
      [origin |-> <<1, 1, -5>>, direction |-> <<0, 0, 1>>],
      [origin |-> <<2, 1, 5>>, direction |-> <<0, 0, -1>>],
      [origin |-> <<-5, 0, 0>>, direction |-> <<1, 0, 0>>],
      [origin |-> <<0, 5, 0>>, direction |-> <<0, -1, 0>>] }

\* the square root of Sphere::raycast is exact for this object and ray
ExactCall(o, r) ==
    IF o.kind = "sphere" THEN ExactFor(o, r.origin, r.direction)
    ELSE IF o.kind = "transform" /\ o.obj.kind = "sphere"
    THEN ExactFor(o.obj, InversePoint3(o.xf, r.origin), InverseVector3(o.xf, r.direction))
    ELSE TRUE

ObjectsInit ==
    /\ object \in SphereObjects \cup TriangleObjects \cup TransformObjects
    /\ probe \in ProbeRays
    /\ ExactCall(object, probe)
    /\ result = None
    /\ o_pc = "call"

SphereCall ==
    /\ o_pc = "call"
    /\ object.kind = "sphere"
    /\ result' \in SphereHits(object, probe.origin, probe.direction)
    /\ o_pc' = "returned"
    /\ UNCHANGED <<object, probe>>

TriangleCall ==
    /\ o_pc = "call"
    /\ object.kind = "triangle"
    /\ result' \in TriangleRaycast(object, probe.origin, probe.direction)
    /\ o_pc' = "returned"
    /\ UNCHANGED <<object, probe>>

TransformCall ==
    /\ o_pc = "call"
    /\ object.kind = "transform"
    /\ result' \in TransformRaycast(object, probe.origin, probe.direction)
    /\ o_pc' = "returned"
    /\ UNCHANGED <<object, probe>>

(***************************************************************************)
(* Media (src/src/medium.rs).  Wavelengths are in units of 100 nm.  An     *)
(* atmosphere's height scale is given by half_height = height_scale * ln 2 *)
(* and altitudes are whole multiples of it, so that                        *)
(* (-altitude / height_scale).exp() = 2^-(altitude / half_height) exactly. *)
(***************************************************************************)
\* a <= b for finite a and b
FLe(a, b) == a.n * b.d <= b.n * a.d

FMax(a, b) == IF FLe(a, b) THEN b ELSE a

\* a < b for finite a and b
FLt(a, b) == a.n * b.d < b.n * a.d

\* DVec4::max_element
MaxElement(v) == FMax(FMax(v[1], v[2]), FMax(v[3], v[4]))

Splat(x) == <<x, x, x, x>>

\* ConstantSpectrum::sample followed by Spectrum::sample_multi
SampleMulti(spectrum, lambdas) == [i \in 1..4 |-> R(spectrum)]

\* DVec3::length of a vector whose length is a whole number
Length(v) == Isqrt(IDot(v, v))

\* (-altitude / height_scale).exp()
ExpNeg(altitude, half_height) == Frac(1, Pow2(altitude \div half_height))

Altitude(m, pos) == Length(ISub(pos, m.origin)) - m.sea_level

\* AtmosphereRayleigh::density_coefficient, in units of COEFFICIENT * 1e28
DensityCoefficient(lambdas) ==
    [i \in 1..4 |-> Frac(1, lambdas[i] * lambdas[i] * lambdas[i] * lambdas[i])]

BaseMajorant(m, lambdas) ==
    IF m.kind = "test"
    THEN MaxElement(VAdd(SampleMulti(m.absorption, lambdas), SampleMulti(m.scattering, lambdas)))
    ELSE IF m.kind = "rayleigh" THEN MaxElement(DensityCoefficient(lambdas))
    ELSE IF m.kind = "mie" THEN R(m.sea_level_density)
    ELSE R(0)

BaseScattering(m, pos, lambdas) ==
    IF m.kind = "test"
    THEN VScale(R(1 - Length(pos)), SampleMulti(m.scattering, lambdas))
    ELSE IF m.kind = "rayleigh"
    THEN VScale(ExpNeg(Altitude(m, pos), m.half_height), DensityCoefficient(lambdas))
    ELSE IF m.kind = "mie"
    THEN Splat(FMul(R(m.sea_level_density), ExpNeg(Altitude(m, pos), m.half_height)))
    ELSE Splat(R(0))

BaseAbsorption(m, pos, lambdas) ==
    IF m.kind = "test"
    THEN VScale(R(1 - Length(pos)), SampleMulti(m.absorption, lambdas))
    ELSE IF m.kind = "mie" THEN VScale(Frac(1, 10), BaseScattering(m, pos, lambdas))
    ELSE Splat(R(0))

Majorant(m, lambdas) ==
    IF m.kind = "combined"
    THEN FAdd(BaseMajorant(m.m1, lambdas), BaseMajorant(m.m2, lambdas))
    ELSE BaseMajorant(m, lambdas)

Absorption(m, pos, lambdas) ==
    IF m.kind = "combined"
    THEN VAdd(BaseAbsorption(m.m1, pos, lambdas), BaseAbsorption(m.m2, pos, lambdas))
    ELSE BaseAbsorption(m, pos, lambdas)

Scattering(m, pos, lambdas) ==
    IF m.kind = "combined"
    THEN VAdd(BaseScattering(m.m1, pos, lambdas), BaseScattering(m.m2, pos, lambdas))
    ELSE BaseScattering(m, pos, lambdas)

\* the media, wavelength quadruples and positions explored
TestMedia ==
    { [kind |-> "test", absorption |-> a, scattering |-> sc] : a \in {0, 1}, sc \in {1, 3} }

RayleighMedia ==
    { [kind |-> "rayleigh", origin |-> <<0, 0, 0>>, sea_level |-> 1, half_height |-> h] :
        h \in {1, 2} }

MieMedia ==
    { [kind |-> "mie", origin |-> <<0, 0, 0>>, sea_level |-> 1, sea_level_density |-> rho,
       half_height |-> h] : rho \in {1, 2}, h \in {1, 2} }

BaseMedia == TestMedia \cup RayleighMedia \cup MieMedia

CombinedMedia == { [kind |-> "combined", m1 |-> a, m2 |-> b] : a \in BaseMedia, b \in BaseMedia }

LambdaChoices == { <<4, 5, 6, 6>>, <<6, 4, 4, 5>>, <<5, 5, 5, 5>> }

PosChoices == { <<0, 0, 0>>, <<1, 0, 0>>, <<0, -1, 0>>, <<0, 0, 3>>, <<2, 0, 0>> }

IsAtmosphere(m) == m.kind \in {"rayleigh", "mie"}

\* pos is in the domain of m, at an altitude the model represents
BaseInDomain(m, pos) ==
    IsAtmosphere(m) => /\ Altitude(m, pos) >= 0
                       /\ Altitude(m, pos) % m.half_height = 0

InDomain(m, pos) ==
    IF m.kind = "combined" THEN BaseInDomain(m.m1, pos) /\ BaseInDomain(m.m2, pos)
    ELSE BaseInDomain(m, pos)

MediumInit ==
    /\ medium \in BaseMedia \cup CombinedMedia
    /\ m_lambdas \in LambdaChoices
    /\ m_pos \in PosChoices
    /\ InDomain(medium, m_pos)
    /\ majorant = R(0)
    /\ absorption = Splat(R(0))
    /\ scattering = Splat(R(0))
    /\ m_pc = "majorant"

\* let majorant = medium.majorant(lambdas)
CallMajorant ==
    /\ m_pc = "majorant"
    /\ majorant' = Majorant(medium, m_lambdas)
    /\ m_pc' = "absorption"
    /\ UNCHANGED <<medium, m_lambdas, m_pos, absorption, scattering>>

\* medium.absorption(pos, outgoing, lambdas)
CallAbsorption ==
    /\ m_pc = "absorption"
    /\ absorption' = Absorption(medium, m_pos, m_lambdas)
    /\ m_pc' = "scattering"
    /\ UNCHANGED <<medium, m_lambdas, m_pos, majorant, scattering>>

\* medium.scattering(pos, outgoing, lambdas)
CallScattering ==
    /\ m_pc = "scattering"
    /\ scattering' = Scattering(medium, m_pos, m_lambdas)
    /\ m_pc' = "done"
    /\ UNCHANGED <<medium, m_lambdas, m_pos, majorant, absorption>>

(***************************************************************************)
(* The world of a walk (src/src/path_trace.rs): parallel planes crossed at *)
(* normal incidence.  A vector is its component along the axis, so that a  *)
(* direction is 1 or -1 and the zero vector is 0.  A position is [x, off]: *)
(* the lattice point x displaced by off * 1e-6, and a distance is          *)
(* [len, fine]: len lattice units plus fine * 1e-6.  Spectra are held      *)
(* sampled at the walk's wavelength quadruple.  Phase functions and light  *)
(* densities are in units of 1 / (4 pi).                                   *)
(***************************************************************************)
Zero4 == Splat(R(0))

One4 == Splat(R(1))

ElementSum(v) == FAdd(FAdd(v[1], v[2]), FAdd(v[3], v[4]))

\* f64::INFINITY as a distance
InfT == [len |-> TInf, fine |-> 0]

\* a < b for distances
TLess(a, b) == a.len < b.len \/ (a.len = b.len /\ a.fine < b.fine)

Miss == [some |-> FALSE, t |-> InfT, normal |-> 0, geo_normal |-> 0, material |-> 0]

\* Object::raycast of a plane: None behind the origin
PlaneRaycast(plane, pos, dir) ==
    LET t == [len |-> (plane.x - pos.x) * dir, fine |-> -pos.off * dir]
    IN  IF TLess(t, [len |-> 0, fine |-> 0]) THEN Miss
        ELSE [some |-> TRUE, t |-> t, normal |-> plane.normal,
              geo_normal |-> plane.normal, material |-> plane.material]

\* Scene::raycast; the guard hit.t < max_t - hit.normal.dot(direction) * 1.0e-12
\* separates two hits only when their distances are equal
RECURSIVE ScanPlanes(_, _, _, _, _, _)
ScanPlanes(planes, i, pos, dir, max_t, best) ==
    IF i > Len(planes) THEN best
    ELSE LET h == PlaneRaycast(planes[i], pos, dir)
         IN  IF h.some /\ (TLess(h.t, max_t) \/ (h.t = max_t /\ h.normal * dir < 0))
             THEN ScanPlanes(planes, i + 1, pos, dir, h.t, h)
             ELSE ScanPlanes(planes, i + 1, pos, dir, max_t, best)

WalkRaycast(scn, pos, dir, max_t) == ScanPlanes(scn.objects, 1, pos, dir, max_t, Miss)

\* the emission towards dir, were the test max_t == f64::INFINITY left out
LightEmissionAnyDistance(light, dir, max_t) ==
    IF FLe(light.cos_radius, R(dir * light.dir)) THEN light.emission
    ELSE Zero4

\* DistantDiskLight::emission
LightEmissionOf(light, dir, max_t) ==
    IF max_t = InfT /\ FLe(light.cos_radius, R(dir * light.dir)) THEN light.emission
    ELSE Zero4

\* Scene::light_emission
RECURSIVE SumLights(_, _, _, _)
SumLights(lights, i, dir, max_t) ==
    IF i > Len(lights) THEN Zero4
    ELSE VAdd(LightEmissionOf(lights[i], dir, max_t), SumLights(lights, i + 1, dir, max_t))

LightEmission(scn, dir, max_t) == SumLights(scn.lights, 1, dir, max_t)

\* DistantDiskLight::pdf
LightPdf(light, dir) ==
    IF FLe(light.cos_radius, R(dir * light.dir))
    THEN FDiv(R(2), FSub(R(1), light.cos_radius))
    ELSE R(0)

\* DistantDiskLight::sample, for the draw that gives the light's own direction
LightSample(light) ==
    [dir |-> light.dir, dist |-> InfT, pdf |-> LightPdf(light, light.dir),
     emission |-> LightEmissionOf(light, light.dir, InfT)]

\* thread_rng().gen::<f64>(): a value of [0, 1)
RandomChoices == { Frac(k, RandomGrid) : k \in 0..(RandomGrid - 1) }

\* Option<(&dyn Light, f64)>::None
NoLight == [some |-> FALSE, light |-> [emission |-> Zero4, dir |-> 0, cos_radius |-> R(1)],
            pdf |-> R(0)]

\* Scene::sample_light that returns the first light whatever the random value
SampleLightFirst(lights, random) ==
    IF Len(lights) = 0 THEN NoLight
    ELSE [some |-> TRUE, light |-> lights[1], pdf |-> FDiv(R(1), R(Len(lights)))]

\* Scene::sample_light; i as usize truncates, and the sequence is indexed from 1
SampleLightAt(lights, random) ==
    IF Len(lights) = 0 THEN NoLight
    ELSE LET i == FMul(random, R(Len(lights)))
         IN  [some |-> TRUE, light |-> lights[(i.n \div i.d) + 1],
              pdf |-> FDiv(R(1), R(Len(lights)))]

\* Scene::sample_light: the lights it can return, each with probability 1 / n
SampleLight(scn) ==
    { [light |-> o.light, pdf |-> o.pdf] :
        o \in { x \in { SampleLightAt(scn.lights, u) : u \in RandomChoices } : x.some } }

(***************************************************************************)
(* Media and BRDFs as the walk meets them (src/src/medium.rs,              *)
(* src/src/brdf/conductor.rs, src/src/brdf/dielectric.rs).                 *)
(***************************************************************************)
\* lattice units per unit of length
UnitLen == 4

Vacuum == [kind |-> "vacuum"]

Participating(m) == m.kind /= "vacuum"

\* lambdas.xxxx() applied to a sampled spectrum
Xxxx(v) == Splat(v[1])

\* TestMedium::majorant(lambdas.xxxx()) or TestMedium::majorant(lambdas)
WalkMajorant(m, terminated) ==
    IF terminated THEN MaxElement(VAdd(Xxxx(m.absorption), Xxxx(m.scattering)))
    ELSE MaxElement(VAdd(m.absorption, m.scattering))

\* 1.0 - pos.length(), the 1e-6 displacement of pos left out
Thinning(pos) == Frac(UnitLen - Abs(pos.x), UnitLen)

\* Medium::properties: absorption, scattering and emission of a TestMedium at pos
WalkProperties(m, pos) ==
    [absorption |-> VScale(Thinning(pos), m.absorption),
     scattering |-> VScale(Thinning(pos), m.scattering),
     emission   |-> m.emission]

\* let mp = medium.properties(pos, dir, lambdas) in the tracking loop of
\* path_trace, where origin is pos and p the tentative collision point
PropertiesRead(m, origin, p) == WalkProperties(m, origin)

\* TestMedium::phase
Phase(m) == One4

\* Medium::pdf_phase
PdfPhase(m) == R(1)

\* Medium::sample_phase: any direction
SamplePhase(m) == {1, -1}

\* DVec3::reflect
Reflect(v, n) == v - 2 * (v * n) * n

\* fresnel_reflectance_complex(1.0, re + im i)
FresnelReflectanceComplex(re, im) ==
    Frac((re - 1) * (re - 1) + im * im, (re + 1) * (re + 1) + im * im)

\* fresnel_reflectance_real(1.0, rel_ior)
FresnelReflectanceReal(rel_ior) ==
    LET r_par  == FDiv(FSub(rel_ior, R(1)), FAdd(rel_ior, R(1)))
        r_perp == FDiv(FSub(R(1), rel_ior), FAdd(R(1), rel_ior))
    IN  FDiv(FAdd(FMul(r_par, r_par), FMul(r_perp, r_perp)), R(2))

\* SmoothConductorBrdf::sample
ConductorSample(brdf, outgoing, normal) ==
    LET cos_i   == -(outgoing * normal)
        fresnel == [i \in 1..4 |-> FresnelReflectanceComplex(brdf.ior_re[i], brdf.ior_im[i])]
    IN  IF cos_i < 0
        THEN { [dir |-> 0, pdf |-> R(0), f |-> Zero4, terminate_secondary |-> FALSE,
                singular |-> TRUE] }
        ELSE { [dir |-> Reflect(outgoing, normal), pdf |-> R(1),
                f |-> VDivS(fresnel, R(cos_i)), terminate_secondary |-> FALSE,
                singular |-> TRUE] }

\* DielectricBrdf::sample: both outcomes of random.z < fresnel_reflect.x
DielectricSampleUnit(brdf, outgoing, normal) ==
    LET front     == outgoing * normal < 0
        ior       == IF front THEN brdf.ior ELSE [i \in 1..4 |-> FDiv(R(1), brdf.ior[i])]
        n         == IF front THEN normal ELSE -normal
        reflected == Reflect(outgoing, n)
        cos_i     == reflected * n
        fresnel_reflect == [i \in 1..4 |-> FresnelReflectanceReal(ior[i])]
        refracted == outgoing
        lose      == FSub(R(1), fresnel_reflect[1])
    IN  (IF FLe(fresnel_reflect[1], R(0)) THEN {}
         ELSE { [dir |-> reflected, pdf |-> R(1),
                 f |-> VDivS(fresnel_reflect, R(cos_i)), terminate_secondary |-> FALSE,
                 singular |-> TRUE] })
        \cup
        (IF FLe(R(1), fresnel_reflect[1]) THEN {}
         ELSE { [dir |-> refracted, pdf |-> R(1),
                 f |-> Splat(FDiv(FDiv(lose, R(Abs(refracted * n))), FMul(ior[1], ior[1]))),
                 terminate_secondary |-> TRUE, singular |-> TRUE] })

DielectricSample(brdf, outgoing, normal) ==
    LET front     == outgoing * normal < 0
        ior       == IF front THEN brdf.ior ELSE [i \in 1..4 |-> FDiv(R(1), brdf.ior[i])]
        n         == IF front THEN normal ELSE -normal
        reflected == Reflect(outgoing, n)
        cos_i     == reflected * n
        fresnel_reflect == [i \in 1..4 |-> FresnelReflectanceReal(ior[i])]
        refracted == outgoing
        lose      == FSub(R(1), fresnel_reflect[1])
    IN  (IF FLe(fresnel_reflect[1], R(0)) THEN {}
         ELSE { [dir |-> reflected, pdf |-> fresnel_reflect[1],
                 f |-> VDivS(fresnel_reflect, R(cos_i)), terminate_secondary |-> FALSE,
                 singular |-> TRUE] })
        \cup
        (IF FLe(R(1), fresnel_reflect[1]) THEN {}
         ELSE { [dir |-> refracted, pdf |-> lose,
                 f |-> Splat(FDiv(FDiv(lose, R(Abs(refracted * n))), FMul(ior[1], ior[1]))),
                 terminate_secondary |-> TRUE, singular |-> TRUE] })

\* ThinDielectricBrdf::sample: both outcomes of random.z < fresnel_reflect.x
ThinDielectricSample(brdf, outgoing, normal) ==
    LET n         == IF outgoing * normal > 0 THEN -normal ELSE normal
        reflected == Reflect(outgoing, n)
        cos_i     == reflected * n
        single    == [i \in 1..4 |-> FresnelReflectanceReal(brdf.ior[i])]
        adjust    == [i \in 1..4 |->
                        LET t == FSub(R(1), single[i])
                        IN  FDiv(FMul(FMul(t, t), single[i]),
                                 FSub(R(1), FMul(single[i], single[i])))]
        fresnel_reflect ==
            [i \in 1..4 |-> IF FLt(single[i], R(1)) THEN FAdd(single[i], adjust[i])
                            ELSE single[i]]
    IN  (IF FLe(fresnel_reflect[1], R(0)) THEN {}
         ELSE { [dir |-> reflected, pdf |-> fresnel_reflect[1],
                 f |-> VDivS(fresnel_reflect, R(cos_i)), terminate_secondary |-> FALSE,
                 singular |-> TRUE] })
        \cup
        (IF FLe(R(1), fresnel_reflect[1]) THEN {}
         ELSE { [dir |-> outgoing, pdf |-> FSub(R(1), fresnel_reflect[1]),
                 f |-> VDivS(VSub(One4, fresnel_reflect), R(cos_i)),
                 terminate_secondary |-> FALSE, singular |-> TRUE] })

\* Brdf::sample
BrdfSampleOf(brdf, outgoing, normal) ==
    IF brdf.kind = "conductor" THEN ConductorSample(brdf, outgoing, normal)
    ELSE IF brdf.kind = "dielectric" THEN DielectricSample(brdf, outgoing, normal)
    ELSE ThinDielectricSample(brdf, outgoing, normal)

\* Brdf::f of SmoothConductorBrdf and of DielectricBrdf
BrdfF(brdf, incoming, outgoing, normal) == Zero4

(***************************************************************************)
(* transmittance (src/src/path_trace.rs), as the set of values the call    *)
(* can return, or the panic of line 213.                                   *)
(***************************************************************************)
\* tentative collisions followed per ray segment
MaxTentative == 1

\* pos + dir * t
Along(pos, dir, t) == [x |-> pos.x + dir * t.len, off |-> pos.off + dir * t.fine]

Dist(len) == [len |-> len, fine |-> 0]

\* d - t
TSub(d, t) == IF d = InfT THEN InfT ELSE [len |-> d.len - t.len, fine |-> d.fine - t.fine]

\* hit.geo_normal * (1e-6 * hit.geo_normal.dot(dir).signum()) added to p
Offset(p, geo_normal, dir) ==
    { [x |-> p.x, off |-> p.off + geo_normal * sg] : sg \in Signum(geo_normal * dir) }

\* 1.0 - (mp.absorption + mp.scattering) / majorant
PrNull(mp, maj) == VSub(One4, VDivS(VAdd(mp.absorption, mp.scattering), maj))

\* the products of pr_null over the tentative collisions of one segment
RECURSIVE NullProducts(_, _, _, _, _, _, _)
NullProducts(m, pos, dir, maj, from, hit_t, k) ==
    {One4} \cup
    (IF k = 0 THEN {}
     ELSE UNION { { VMul(PrNull(WalkProperties(m, Along(pos, dir, Dist(t))), maj), q) :
                      q \in NullProducts(m, pos, dir, maj, t, hit_t, k - 1) } :
                  t \in { u \in (from + 1)..hit_t.len : TLess(Dist(u), hit_t) } })

\* the outcomes of a call: a value returned, or a panic
Returns(v) == [panic |-> FALSE, value |-> v]

Panics == [panic |-> TRUE, value |-> Zero4]

RECURSIVE TransmittanceFrom(_, _, _, _, _, _, _)
TransmittanceFrom(scn, pos, dir, terminated, m, d, acc) ==
    IF ~TLess(Dist(0), d) THEN {Returns(acc)}
    ELSE LET h == WalkRaycast(scn, pos, dir, d)
         IN  IF ~h.some THEN (IF Participating(m) THEN {Panics} ELSE {Returns(acc)})
             ELSE IF TLess(h.t, d) /\ h.material.brdf.kind /= "none" THEN {Returns(Zero4)}
             ELSE LET accs == IF Participating(m)
                              THEN { VMul(acc, q) :
                                       q \in NullProducts(m, pos, dir, WalkMajorant(m, terminated),
                                                          0, h.t, MaxTentative) }
                              ELSE {acc}
                      m2   == IF dir * h.geo_normal > 0 THEN h.material.exit_medium
                              ELSE h.material.enter_medium
                  IN  UNION { TransmittanceFrom(scn, p2, dir, terminated, m2, TSub(d, h.t), a) :
                                a \in accs, p2 \in Offset(Along(pos, dir, h.t), h.geo_normal, dir) }

Transmittance(scn, pos, dir, terminated, m, d) ==
    TransmittanceFrom(scn, pos, dir, terminated, m, d, One4)

(***************************************************************************)
(* path_trace (src/src/path_trace.rs).                                     *)
(***************************************************************************)
\* iterations of 'mainloop followed per walk
MaxRaycasts == 4

\* the scenes, cameras and random draws explored
Fog ==
    [kind |-> "test",
     absorption |-> <<Frac(1, 4), Frac(1, 4), Frac(1, 4), Frac(1, 4)>>,
     scattering |-> <<Frac(1, 4), Frac(1, 2), Frac(1, 2), Frac(1, 2)>>,
     emission   |-> <<R(1), R(0), R(0), R(0)>>]

NoBrdf == [kind |-> "none"]

MirrorMaterial ==
    [emission |-> Zero4,
     brdf |-> [kind |-> "conductor", ior_re |-> <<1, 1, 1, 1>>, ior_im |-> <<2, 2, 2, 1>>],
     enter_medium |-> Vacuum, exit_medium |-> Vacuum]

LampMaterial ==
    [emission |-> One4, brdf |-> NoBrdf, enter_medium |-> Vacuum, exit_medium |-> Vacuum]

GlassMaterial ==
    [emission |-> Zero4,
     brdf |-> [kind |-> "dielectric", ior |-> <<R(3), R(3), R(3), R(2)>>],
     enter_medium |-> Fog, exit_medium |-> Vacuum]

MistMaterial ==
    [emission |-> Zero4, brdf |-> NoBrdf, enter_medium |-> Fog, exit_medium |-> Vacuum]

WalkMaterials == {MirrorMaterial, LampMaterial, GlassMaterial, MistMaterial}

PlanesAt(x, normals) ==
    { << >> } \cup { << [x |-> x, normal |-> n, material |-> mat] >> :
                       n \in normals, mat \in WalkMaterials }

Sun == [emission |-> One4, dir |-> -1, cos_radius |-> Frac(1, 2)]

WalkScenes ==
    { [objects |-> near \o back, lights |-> ls] :
        near \in PlanesAt(2, {1, -1}), back \in PlanesAt(-3, {1}), ls \in { << >>, <<Sun>> } }

DtChoices == {1, 2}

\* the walk never stops at a sample
NeverBreak(sample) == FALSE

\* sample.dir == DVec3::ZERO
BreakOnZero(sample) == sample.dir = 0

\* mp before the first tentative collision
NoProperties == [absorption |-> Zero4, scattering |-> Zero4, emission |-> Zero4]

NoSample ==
    [dir |-> 1, pdf |-> R(1), f |-> One4, terminate_secondary |-> FALSE, singular |-> TRUE]

WalkInit ==
    /\ w_scene \in WalkScenes
    /\ w_pos = [x |-> 0, off |-> 0]
    /\ w_dir = 1
    /\ w_medium \in {Vacuum, Fog}
    /\ throughput = One4
    /\ w_radiance = Zero4
    /\ secondary_terminated = FALSE
    /\ bounces = 0
    /\ specular_bounce = TRUE
    /\ w_hit = Miss
    /\ hit_pos = [x |-> 0, off |-> 0]
    /\ old_dir = 1
    /\ w_t = 0
    /\ w_p = [x |-> 0, off |-> 0]
    /\ w_mp = NoProperties
    /\ w_majorant = R(0)
    /\ w_sample = NoSample
    /\ raycasts = 0
    /\ returned = Zero4
    /\ w_pc = "head"

\* the hero component scaled, the secondary components left as they are
TerminateSecondaryKeep(tp) == <<FMul(tp[1], R(4)), tp[2], tp[3], tp[4]>>

\* throughput.x *= 4.0; throughput.y = 0.0; throughput.z = 0.0; throughput.w = 0.0
TerminateSecondary(tp) == <<FMul(tp[1], R(4)), R(0), R(0), R(0)>>

\* the head of 'mainloop: the loop test, the raycast, and the entry of the medium
\* block, for a walk followed for at most limit iterations
LoopHeadUpTo(limit) ==
    /\ w_pc = "head"
    /\ raycasts < limit
    /\ IF throughput = Zero4
       THEN /\ w_pc' = "return"
            /\ UNCHANGED <<w_hit, raycasts, throughput, secondary_terminated, w_majorant, w_t>>
       ELSE LET h == WalkRaycast(w_scene, w_pos, w_dir, InfT)
            IN  /\ w_hit' = h
                /\ raycasts' = raycasts + 1
                /\ IF Participating(w_medium)
                   THEN IF ~h.some
                        THEN /\ w_pc' = "panic"
                             /\ UNCHANGED <<throughput, secondary_terminated, w_majorant, w_t>>
                        ELSE /\ throughput' = IF ~secondary_terminated
                                              THEN TerminateSecondary(throughput)
                                              ELSE throughput
                             /\ secondary_terminated' = TRUE
                             /\ w_majorant' = WalkMajorant(w_medium, TRUE)
                             /\ w_t' = 0
                             /\ w_pc' = "volume"
                   ELSE /\ w_pc' = "surface"
                        /\ UNCHANGED <<throughput, secondary_terminated, w_majorant, w_t>>
    /\ w_p' = [x |-> 0, off |-> 0]
    /\ w_mp' = NoProperties
    /\ UNCHANGED <<w_scene, w_pos, w_dir, w_medium, w_radiance, bounces, specular_bounce,
                   hit_pos, old_dir, w_sample, returned>>

LoopHead == LoopHeadUpTo(MaxRaycasts)

\* the rays of a short walk, enough for an event of the medium behind a surface
MaxShortRaycasts == 2

\* the loop head of a walk of at most MaxShortRaycasts rays
ShortLoopHead == LoopHeadUpTo(MaxShortRaycasts)

\* next-event estimation: radiance after radiance += tp_f * transmittance / (pdf * sample.pdf),
\* or a panic inside transmittance
Estimates(rad, tp_f, origin, sample, pdf) ==
    IF tp_f = Zero4 THEN {Returns(rad)}
    ELSE { IF tr.panic THEN Panics
           ELSE Returns(VAdd(rad, VDivS(VMul(tp_f, tr.value), FMul(pdf, sample.pdf)))) :
           tr \in Transmittance(w_scene, origin, sample.dir, secondary_terminated, w_medium,
                                sample.dist) }

\* specular_bounce after a scattering event, were it left as it was
SpecularKept(was) == was

\* line 104: specular_bounce = false
SpecularAfterScatter(was) == FALSE

\* one iteration of the tracking loop: the free path dt, then the event drawn by rng
VolumeStep ==
    /\ w_pc = "volume"
    /\ \E dt \in DtChoices :
         LET t == w_t + dt
         IN  IF ~TLess(Dist(t), w_hit.t)
             THEN \* break: p and mp of the tracking loop go out of scope
                  /\ w_t' = t
                  /\ w_pc' = "surface"
                  /\ w_p' = [x |-> 0, off |-> 0]
                  /\ w_mp' = NoProperties
                  /\ UNCHANGED <<w_pos, w_dir, throughput, w_radiance, specular_bounce>>
             ELSE LET p  == Along(w_pos, w_dir, Dist(t))
                      mp == PropertiesRead(w_medium, w_pos, p)
                      pr_absorption == VDivS(mp.absorption, w_majorant)
                      pr_scattering == VDivS(mp.scattering, w_majorant)
                      pr_null == VSub(VSub(One4, pr_absorption), pr_scattering)
                      both == FAdd(pr_absorption[1], pr_scattering[1])
                      lit  == IF specular_bounce
                              THEN VAdd(w_radiance,
                                        VMul(throughput, LightEmission(w_scene, w_dir, Dist(t))))
                              ELSE w_radiance
                  IN  \/ \* rng < pr_absorption.x
                         /\ w_p' = p /\ w_mp' = mp
                         /\ FLt(R(0), pr_absorption[1])
                         /\ throughput' = VMul(throughput, VDivS(pr_absorption, pr_absorption[1]))
                         /\ w_radiance' = VAdd(lit, VMul(throughput', mp.emission))
                         /\ w_t' = t
                         /\ w_pc' = "return"
                         /\ UNCHANGED <<w_pos, w_dir, specular_bounce>>
                      \/ \* rng < pr_absorption.x + pr_scattering.x
                         /\ w_p' = p /\ w_mp' = mp
                         /\ FLt(pr_absorption[1], R(1))
                         /\ FLt(pr_absorption[1], both)
                         /\ FLt(R(0), both)
                         /\ LET tp == VMul(throughput, VDivS(pr_scattering, pr_scattering[1]))
                                outs == IF SampleLight(w_scene) = {} THEN {Returns(lit)}
                                        ELSE UNION { Estimates(lit,
                                                       VMul(VMul(tp, Phase(w_medium)),
                                                            LightSample(sl.light).emission),
                                                       p, LightSample(sl.light), sl.pdf) :
                                                     sl \in SampleLight(w_scene) }
                            IN  \E out \in outs, new_dir \in SamplePhase(w_medium) :
                                  /\ w_t' = t
                                  /\ IF out.panic
                                     THEN /\ w_pc' = "panic"
                                          /\ UNCHANGED <<w_pos, w_dir, throughput, w_radiance,
                                                         specular_bounce>>
                                     ELSE /\ w_radiance' = out.value
                                          /\ throughput' =
                                               VMul(tp, VDivS(Phase(w_medium), PdfPhase(w_medium)))
                                          /\ w_pos' = p
                                          /\ w_dir' = new_dir
                                          /\ specular_bounce' =
                                               SpecularAfterScatter(specular_bounce)
                                          /\ w_pc' = "head"
                      \/ \* otherwise: a null collision
                         /\ w_p' = p /\ w_mp' = mp
                         /\ FLt(pr_absorption[1], R(1))
                         /\ FLt(both, R(1))
                         /\ throughput' = VMul(throughput, VDivS(pr_null, pr_null[1]))
                         /\ w_t' = t
                         /\ UNCHANGED <<w_pos, w_dir, w_radiance, specular_bounce, w_pc>>
    /\ UNCHANGED <<w_scene, w_medium, secondary_terminated, bounces, w_hit, hit_pos, old_dir,
                   w_majorant, w_sample, raycasts, returned>>

\* lines 113-126: the light seen along a specular ray, the miss, the surface's emission
Surface ==
    /\ w_pc = "surface"
    /\ LET d   == IF w_hit.some THEN w_hit.t ELSE InfT
           lit == IF specular_bounce
                  THEN VAdd(w_radiance, VMul(throughput, LightEmission(w_scene, w_dir, d)))
                  ELSE w_radiance
       IN  IF ~w_hit.some
           THEN /\ w_radiance' = lit
                /\ w_pc' = "return"
                /\ UNCHANGED <<hit_pos, old_dir>>
           ELSE /\ hit_pos' = Along(w_pos, w_dir, w_hit.t)
                /\ w_radiance' = VAdd(lit, VMul(throughput, w_hit.material.emission))
                /\ old_dir' = w_dir
                /\ w_pc' = IF w_hit.material.brdf.kind /= "none" THEN "light" ELSE "advance"
    /\ UNCHANGED <<w_scene, w_pos, w_dir, w_medium, throughput, secondary_terminated, bounces,
                   specular_bounce, w_hit, w_t, w_majorant, w_sample, raycasts, returned,
                   w_p, w_mp>>

\* lines 129-150: next-event estimation at a surface with a BRDF
NextEvent ==
    /\ w_pc = "light"
    /\ LET brdf == w_hit.material.brdf
           tpf(sample) ==
               VScale(R(Abs(sample.dir * w_hit.normal)),
                      VMul(VMul(throughput, BrdfF(brdf, sample.dir, w_dir, w_hit.normal)),
                           sample.emission))
           outs == IF SampleLight(w_scene) = {} THEN {Returns(w_radiance)}
                   ELSE UNION { UNION { Estimates(w_radiance, tpf(LightSample(sl.light)), origin,
                                                  LightSample(sl.light), sl.pdf) :
                                        origin \in Offset(hit_pos, w_hit.geo_normal,
                                                          w_hit.geo_normal
                                                            * LightSample(sl.light).dir) } :
                                sl \in SampleLight(w_scene) }
       IN  \E out \in outs :
             IF out.panic
             THEN w_pc' = "panic" /\ UNCHANGED w_radiance
             ELSE w_pc' = "sample" /\ w_radiance' = out.value
    /\ UNCHANGED <<w_scene, w_pos, w_dir, w_medium, throughput, secondary_terminated, bounces,
                   specular_bounce, w_hit, hit_pos, old_dir, w_t, w_majorant, w_sample,
                   raycasts, returned,
                   w_p, w_mp>>

\* lines 152-170: the BRDF sample; the zero direction ends the walk
BrdfSample ==
    /\ w_pc = "sample"
    /\ \E sample \in BrdfSampleOf(w_hit.material.brdf, w_dir, w_hit.normal) :
         /\ w_sample' = sample
         /\ IF BreakOnZero(sample)
            THEN /\ w_pc' = "return"
                 /\ UNCHANGED <<throughput, secondary_terminated, w_dir, specular_bounce>>
            ELSE LET tp        == IF sample.terminate_secondary /\ ~secondary_terminated
                                  THEN TerminateSecondary(throughput)
                                  ELSE throughput
                     cos_theta == R(Abs(sample.dir * w_hit.normal))
                 IN  /\ secondary_terminated' =
                          (secondary_terminated \/ sample.terminate_secondary)
                     /\ throughput' = VMul(tp, VDivS(VScale(cos_theta, sample.f), sample.pdf))
                     /\ w_dir' = sample.dir
                     /\ specular_bounce' = sample.singular
                     /\ w_pc' = "advance"
    /\ UNCHANGED <<w_scene, w_pos, w_medium, w_radiance, bounces, w_hit, hit_pos, old_dir, w_t,
                   w_majorant, raycasts, returned,
                   w_p, w_mp>>

\* the medium of lines 176-181, were it switched after a reflection as well
SwitchAlways(old_sign, new_sign, dir_dot_normal, material, current) ==
    IF dir_dot_normal > 0 THEN material.exit_medium ELSE material.enter_medium

\* lines 176-181: the medium after the surface, old_sign and new_sign being the
\* signum of old_dir.dot(hit.geo_normal) and of dir.dot(hit.geo_normal)
SwitchMedium(old_sign, new_sign, dir_dot_normal, material, current) ==
    IF old_sign = new_sign
    THEN (IF dir_dot_normal > 0 THEN material.exit_medium ELSE material.enter_medium)
    ELSE current

\* the next origin, were it the hit point itself
NextOriginAtHit(at, geo_normal, dir) == {at}

\* lines 173-174: pos = hit_pos + offset
NextOrigin(at, geo_normal, dir) == Offset(at, geo_normal, dir)

\* lines 173-181: the ray origin moves past the surface and the medium is switched
Advance ==
    /\ w_pc = "advance"
    /\ w_pos' \in NextOrigin(hit_pos, w_hit.geo_normal, w_dir)
    /\ \E so \in Signum(old_dir * w_hit.geo_normal), sn \in Signum(w_dir * w_hit.geo_normal) :
         w_medium' = SwitchMedium(so, sn, w_dir * w_hit.geo_normal, w_hit.material, w_medium)
    /\ w_pc' = "roulette"
    /\ UNCHANGED <<w_scene, w_dir, throughput, w_radiance, secondary_terminated, bounces,
                   specular_bounce, w_hit, hit_pos, old_dir, w_t, w_majorant, w_sample,
                   raycasts, returned,
                   w_p, w_mp>>

\* the counter, were it never reset
ResetNever(count) == count

\* lines 184-186: if bounces > 20 { bounces = 0; }
ResetBounces(count) == IF count > 20 THEN 0 ELSE count

\* lines 183-194: Russian roulette, then bounces += 1
Roulette ==
    /\ w_pc = "roulette"
    /\ LET play  == FLt(ElementSum(throughput), Frac(1, 2)) \/ bounces > 20
           reset == ResetBounces(bounces)
       IN  \/ \* thread_rng().gen_bool(0.5) is true
              /\ play
              /\ bounces' = reset
              /\ w_pc' = "return"
              /\ UNCHANGED throughput
           \/ \* it is false, or no roulette is played
              /\ throughput' = IF play THEN VScale(R(2), throughput) ELSE throughput
              /\ bounces' = IF play THEN reset + 1 ELSE bounces + 1
              /\ w_pc' = "head"
    /\ UNCHANGED <<w_scene, w_pos, w_dir, w_medium, w_radiance, secondary_terminated,
                   specular_bounce, w_hit, hit_pos, old_dir, w_t, w_majorant, w_sample,
                   raycasts, returned,
                   w_p, w_mp>>

\* line 197
Return ==
    /\ w_pc = "return"
    /\ returned' = w_radiance
    /\ w_pc' = "done"
    /\ UNCHANGED <<w_scene, w_pos, w_dir, w_medium, throughput, w_radiance,
                   secondary_terminated, bounces, specular_bounce, w_hit, hit_pos, old_dir,
                   w_t, w_majorant, w_sample, raycasts,
                   w_p, w_mp>>

(***************************************************************************)
(* Long walks: a ray caught between two facing mirrors in a vacuum, which  *)
(* is followed for MaxBounceRaycasts iterations.                           *)
(***************************************************************************)
MaxBounceRaycasts == 26

\* a conductor that reflects everything, and one that reflects half
PerfectMirror ==
    [emission |-> Zero4,
     brdf |-> [kind |-> "conductor", ior_re |-> <<0, 0, 0, 0>>, ior_im |-> <<1, 1, 1, 1>>],
     enter_medium |-> Vacuum, exit_medium |-> Vacuum]

HalfMirror ==
    [emission |-> Zero4,
     brdf |-> [kind |-> "conductor", ior_re |-> <<1, 1, 1, 1>>, ior_im |-> <<2, 2, 2, 2>>],
     enter_medium |-> Vacuum, exit_medium |-> Vacuum]

CorridorScenes ==
    { [objects |-> << [x |-> 2, normal |-> -1, material |-> near],
                      [x |-> -3, normal |-> 1, material |-> back] >>,
       lights |-> ls] :
        near \in {PerfectMirror, HalfMirror}, back \in {PerfectMirror, HalfMirror},
        ls \in { << >>, <<Sun>> } }

BouncesInit ==
    /\ w_scene \in CorridorScenes
    /\ w_pos = [x |-> 0, off |-> 0]
    /\ w_dir = 1
    /\ w_medium = Vacuum
    /\ throughput = One4
    /\ w_radiance = Zero4
    /\ secondary_terminated = FALSE
    /\ bounces = 0
    /\ specular_bounce = TRUE
    /\ w_hit = Miss
    /\ hit_pos = [x |-> 0, off |-> 0]
    /\ old_dir = 1
    /\ w_t = 0
    /\ w_p = [x |-> 0, off |-> 0]
    /\ w_mp = NoProperties
    /\ w_majorant = R(0)
    /\ w_sample = NoSample
    /\ raycasts = 0
    /\ returned = Zero4
    /\ w_pc = "head"

LongLoopHead == LoopHeadUpTo(MaxBounceRaycasts)

(***************************************************************************)
(* Calls of functions that keep no state: the arguments are drawn in the   *)
(* initial state, and the call returns a value or panics.                  *)
(***************************************************************************)
\* the BRDFs sampled: refractive indices per wavelength of the quadruple
IorChoices ==
    { Splat(Frac(3, 2)), <<Frac(3, 2), R(3), Frac(5, 3), R(2)>>, Splat(R(1)),
      <<R(2), R(3), Frac(4, 3), Frac(3, 2)>> }

ConductorChoices ==
    { [kind |-> "conductor", ior_re |-> re, ior_im |-> im] :
        re \in { <<1, 1, 1, 1>>, <<1, 2, 3, 1>> }, im \in { <<0, 0, 0, 0>>, <<1, 3, 2, 1>> } }

BrdfChoices ==
    ConductorChoices
    \cup { [kind |-> k, ior |-> ior] : k \in {"dielectric", "thin"}, ior \in IorChoices }

BrdfCalls ==
    { [fn |-> "Brdf::sample", brdf |-> b, outgoing |-> o, normal |-> n] :
        b \in BrdfChoices, o \in {1, -1}, n \in {1, -1} }

\* brdf.sample(outgoing, normal, lambdas, random)
CallBrdfSample ==
    /\ c_pc = "call"
    /\ call.fn = "Brdf::sample"
    /\ \E s \in BrdfSampleOf(call.brdf, call.outgoing, call.normal) :
          ret' = Returns(s)
    /\ c_pc' = "returned"
    /\ UNCHANGED call

\* binary_search_by(|&(l, _)| if l <= lambda { Less } else { Greater }).unwrap_err():
\* the comparison is never Equal, so the search fails at the insertion point, the
\* number of entries of the sorted table with l <= lambda
InsertionPoint(data, lambda) ==
    Cardinality({ k \in 1..Len(data) : data[k][1] <= lambda })

\* f64::lerp
Lerp(low, high, s) == FAdd(low, FMul(FSub(high, low), s))

\* PiecewiseLinearSpectrum::sample; data[i - 1] with i = 0 and data[i] with
\* i = data.len() are out of bounds
PiecewiseSample(data, lambda) ==
    LET i == InsertionPoint(data, lambda)
    IN  IF i = 0 \/ i = Len(data) THEN Panics
        ELSE LET low  == data[i]
                 high == data[i + 1]
             IN  Returns(Lerp(R(low[2]), R(high[2]),
                              FDiv(R(lambda - low[1]), R(high[1] - low[1]))))

\* tables as PiecewiseLinearSpectrum::from_points leaves them: sorted by wavelength
TableChoices ==
    { << >>, << <<4, 1>> >>, << <<4, 1>>, <<6, 3>> >>,
      << <<4, 0>>, <<6, 2>>, <<8, 1>> >>, << <<4, 2>>, <<4, 3>>, <<8, 1>> >> }

SpectrumCalls ==
    { [fn |-> "PiecewiseLinearSpectrum::sample", data |-> d, lambda |-> l] :
        d \in TableChoices, l \in 3..9 }

\* spectrum.sample(lambda)
CallSpectrumSample ==
    /\ c_pc = "call"
    /\ call.fn = "PiecewiseLinearSpectrum::sample"
    /\ ret' = PiecewiseSample(call.data, call.lambda)
    /\ c_pc' = "returned"
    /\ UNCHANGED call

\* f64 % f64 for finite operands, b > 0: the remainder has the sign of a
FRem(a, b) ==
    LET q == Sgn(a.n) * ((Abs(a.n) * b.d) \div (a.d * b.n))
    IN  FSub(a, FMul(R(q), b))

\* the quadruple without the wrap into the visible range
LambdasUnwrapped(lambda) ==
    LET r == FSub(R(VisibleEnd), R(VisibleStart))
    IN  [k \in 1..4 |-> FAdd(lambda, FDiv(FMul(R(k - 1), r), R(4)))]

\* render: lambdas, for the hero wavelength lambda
RenderLambdas(lambda) ==
    LET r     == FSub(R(VisibleEnd), R(VisibleStart))
        start == R(VisibleStart)
    IN  << lambda,
           FAdd(FRem(FSub(FAdd(lambda, FDiv(r, R(4))), start), r), start),
           FAdd(FRem(FSub(FAdd(lambda, FDiv(FMul(R(2), r), R(4))), start), r), start),
           FAdd(FRem(FSub(FAdd(lambda, FDiv(FMul(R(3), r), R(4))), start), r), start) >>

\* thread_rng().gen_range(spectrum::VISIBLE): a value of [360, 830)
HeroChoices == { Frac(k, HeroGrid) : k \in (VisibleStart * HeroGrid)..(VisibleEnd * HeroGrid - 1) }

LambdaCalls == { [fn |-> "render::lambdas", lambda |-> l] : l \in HeroChoices }

\* let lambdas = DVec4::new(...)
CallRenderLambdas ==
    /\ c_pc = "call"
    /\ call.fn = "render::lambdas"
    /\ ret' = Returns(RenderLambdas(call.lambda))
    /\ c_pc' = "returned"
    /\ UNCHANGED call

\* A Node(u32) is the set of the positions of its bits that are set, bit 0 the
\* lowest.  The number a set of bits below 31 stands for:
RECURSIVE BitsValue(_)
BitsValue(bits) ==
    IF bits = {} THEN 0
    ELSE LET k == CHOOSE b \in bits : TRUE
         IN  Pow2(k) + BitsValue(bits \ {k})

\* NodeKind; Empty carries no index
Empty == [kind |-> "Empty", index |-> 0]

Material(index) == [kind |-> "Material", index |-> index]

Internal(index) == [kind |-> "Internal", index |-> index]

\* Node::get, with the test for a material before the test for the empty node
NodeGetMaterialFirst(bits) ==
    IF bits \cap {31} = {} THEN Internal(BitsValue(bits))
    ELSE IF 31 \in bits THEN Material(BitsValue(bits \cap ((0..63) \ {31})))
    ELSE Empty

\* Node::get: self.0 & (1 << 31) is bits \cap {31}, !0 is 0..31, and
\* self.0 as usize & !(1 << 31) is bits \cap ((0..63) \ {31})
NodeGet(bits) ==
    IF bits \cap {31} = {} THEN Internal(BitsValue(bits))
    ELSE IF bits = 0..31 THEN Empty
    ELSE Material(BitsValue(bits \cap ((0..63) \ {31})))

\* the nodes decoded: every pattern of the bits 0, 1, 2, 29, 30 and 31, and the
\* values next to 0xFFFFFFFF and 0x7FFFFFFF
NodeChoices ==
    SUBSET {0, 1, 2, 29, 30, 31}
    \cup { 0..31, 1..31, (0..31) \ {30}, 0..30, 1..30, (0..31) \ {7} }

NodeCalls == { [fn |-> "Node::get", node |-> b] : b \in NodeChoices }

\* node.get()
CallNodeGet ==
    /\ c_pc = "call"
    /\ call.fn = "Node::get"
    /\ ret' = Returns(NodeGet(call.node))
    /\ c_pc' = "returned"
    /\ UNCHANGED call

\* the lights of the scenes sampled: one to four distinct lights
LampAt(k) == [emission |-> Splat(R(k)), dir |-> -1, cos_radius |-> Frac(1, 2)]

LightsChoices ==
    { << >>, <<LampAt(1)>>, <<LampAt(1), LampAt(2)>>, <<LampAt(3), LampAt(1), LampAt(2)>>,
      <<LampAt(4), LampAt(3), LampAt(2), LampAt(1)>> }

LightCalls ==
    { [fn |-> "Scene::sample_light", lights |-> l, random |-> u] :
        l \in LightsChoices, u \in RandomChoices }

\* scene.sample_light(pos, lambdas, random)
CallSampleLight ==
    /\ c_pc = "call"
    /\ call.fn = "Scene::sample_light"
    /\ ret' = Returns(SampleLightAt(call.lights, call.random))
    /\ c_pc' = "returned"
    /\ UNCHANGED call

\* shadow segments: up to three planes ahead of the origin, the segment ending
\* before, at or behind them
TransmittanceScenes ==
    { [objects |-> a \o b \o c, lights |-> << >>] :
        a \in PlanesAt(-3, {1}), b \in PlanesAt(-1, {1, -1}), c \in PlanesAt(2, {-1}) }

SegmentChoices ==
    { Dist(1), Dist(2), Dist(6), [len |-> 6, fine |-> -1], Dist(7), InfT }

TransmittanceCalls ==
    { [fn |-> "transmittance", scene |-> scn, pos |-> [x |-> -4, off |-> 0], dir |-> 1,
       secondary_terminated |-> st, medium |-> m, d |-> d] :
        scn \in TransmittanceScenes, st \in BOOLEAN, m \in {Vacuum, Fog},
        d \in SegmentChoices }

\* transmittance(scene, pos, dir, lambdas, secondary_terminated, medium, d)
CallTransmittance ==
    /\ c_pc = "call"
    /\ call.fn = "transmittance"
    /\ ret' \in Transmittance(call.scene, call.pos, call.dir, call.secondary_terminated,
                              call.medium, call.d)
    /\ c_pc' = "returned"
    /\ UNCHANGED call

AllCalls ==
    BrdfCalls \cup SpectrumCalls \cup LambdaCalls \cup NodeCalls \cup LightCalls
    \cup TransmittanceCalls

CallsInit ==
    /\ call \in AllCalls
    /\ ret = [panic |-> FALSE, value |-> 0]
    /\ c_pc = "call"

(***************************************************************************)
(* VoxelOctree::raycast (src/src/objects/voxel.rs).  A coordinate is an     *)
(* integer number of 1 / CubeUnits of the cube's edge, a direction          *)
(* component is 1 or 2 or the negative of one (so that the clamp to         *)
(* f64::EPSILON does nothing), and a ray parameter is an integer number of  *)
(* 1 / (2 * CubeUnits): every quotient coord / direction is exact.  The     *)
(* octrees drawn have at most two levels of internal nodes.                 *)
(***************************************************************************)
CubeUnits == 8

\* the length of node_stack and offset_stack
StackSize == 32

\* self.materials.len() of the octrees drawn
NumMaterials == 2

Axes == 1..3

\* coord / direction as a ray parameter
Over(coord, dir) == (2 * coord) \div dir

MaxElement3(v) == Max2(Max2(v[1], v[2]), v[3])

MinElement3(v) == Min2(Min2(v[1], v[2]), v[3])

\* BVec3::bitmask of child ^ flip
Bitmask(child, flip) ==
    (IF child[1] /= flip[1] THEN 1 ELSE 0) + (IF child[2] /= flip[2] THEN 2 ELSE 0)
    + (IF child[3] /= flip[3] THEN 4 ELSE 0)

VoxelNone ==
    [some |-> FALSE, t |-> 0, normal |-> <<0, 0, 0>>, geo_normal |-> <<0, 0, 0>>,
     material |-> 0]

NoLocals ==
    [flip |-> <<FALSE, FALSE, FALSE>>, d_sign |-> <<1, 1, 1>>, direction |-> <<1, 1, 1>>,
     origin |-> <<0, 0, 0>>, t |-> 0, enter_dir |-> <<FALSE, FALSE, FALSE>>, height |-> 0,
     two_exp_minus_height |-> 0,
     node_stack |-> [i \in 0..(StackSize - 1) |-> {}],
     offset_stack |-> [i \in 0..(StackSize - 1) |-> <<0, 0, 0>>]]

\* eight children: Material(index) for those in filled, Empty for the others
Leaves(filled, index) ==
    [i \in 0..7 |-> IF i \in filled THEN {31} \cup (IF index = 1 THEN {0} ELSE {}) ELSE 0..31]

\* VoxelOctree::test, a solid cube, an empty cube, cubes of one level and of two
OctreeChoices ==
    { [root |-> {}, nodes |-> << Leaves(0..6, 0) >>, materials |-> NumMaterials],
      [root |-> {31}, nodes |-> << >>, materials |-> NumMaterials],
      [root |-> 0..31, nodes |-> << >>, materials |-> NumMaterials],
      [root |-> {}, nodes |-> << Leaves({7}, 1) >>, materials |-> NumMaterials],
      [root |-> {}, nodes |-> << Leaves({3, 5}, 0) >>, materials |-> NumMaterials],
      [root |-> {},
       nodes |-> << [Leaves({7}, 0) EXCEPT ![0] = {0}], Leaves({0, 7}, 1) >>,
       materials |-> NumMaterials],
      [root |-> {},
       nodes |-> << [Leaves({}, 0) EXCEPT ![0] = {0}], Leaves({7}, 1) >>,
       materials |-> NumMaterials],
      [root |-> {},
       nodes |-> << [Leaves({0}, 0) EXCEPT ![7] = {0}], Leaves({1, 6}, 0) >>,
       materials |-> NumMaterials] }

\* the rays: origins before the cube and inside it, and max_t before and
\* behind the cube
VoxelRays ==
    { [origin |-> <<ox, oy, oz>>, direction |-> <<dx, dy, dz>>, max_t |-> mt] :
        ox \in {-4, 1, 5}, oy \in {-4, 1, 5}, oz \in {-4, 1, 5},
        dx \in {-1, 1, 2}, dy \in {-1, 1, 2}, dz \in {-1, 1, 2}, mt \in {10, 1000} }

VoxelInit ==
    /\ octree \in OctreeChoices
    /\ v_args \in VoxelRays
    /\ trav = NoLocals
    /\ v_ret = VoxelNone
    /\ v_pc = "enter"

\* lines 108-127: the ray brought to the positive octant, its entry into the cube
VoxelEnter ==
    /\ v_pc = "enter"
    /\ LET flip      == [a \in Axes |-> v_args.direction[a] < 0]
           d_sign    == [a \in Axes |-> IF v_args.direction[a] < 0 THEN -1 ELSE 1]
           direction == [a \in Axes |-> Abs(v_args.direction[a])]
           origin    == [a \in Axes |-> IF flip[a] THEN CubeUnits - v_args.origin[a]
                                        ELSE v_args.origin[a]]
           octree_enter == [a \in Axes |-> Over(-origin[a], direction[a])]
           t         == Max2(MaxElement3(octree_enter), 0)
           octree_exit ==
               MinElement3([a \in Axes |-> Over(CubeUnits - origin[a], direction[a])])
       IN  IF octree_exit < t
           THEN /\ v_ret' = VoxelNone
                /\ v_pc' = "done"
                /\ UNCHANGED trav
           ELSE /\ trav' = [flip |-> flip, d_sign |-> d_sign, direction |-> direction,
                            origin |-> origin, t |-> t,
                            enter_dir |-> [a \in Axes |-> octree_enter[a] = t],
                            height |-> 1,
                            two_exp_minus_height |-> CubeUnits \div 2,
                            node_stack |-> [i \in 0..(StackSize - 1) |->
                                              IF i = 1 THEN octree.root ELSE {}],
                            offset_stack |-> [i \in 0..(StackSize - 1) |-> <<0, 0, 0>>]]
                /\ v_pc' = "loop"
                /\ UNCHANGED v_ret
    /\ UNCHANGED <<octree, v_args>>

\* while height > 0 && t < max_t
InLoop == v_pc = "loop" /\ trav.height > 0 /\ trav.t < v_args.max_t

\* line 179: the loop is left, None
VoxelLeave ==
    /\ v_pc = "loop"
    /\ ~(trav.height > 0 /\ trav.t < v_args.max_t)
    /\ v_ret' = VoxelNone
    /\ v_pc' = "done"
    /\ UNCHANGED <<octree, v_args, trav>>

\* offset_stack[height] + 2.0 * two_exp_minus_height - origin, over direction
ExitTime(tr) ==
    MinElement3([a \in Axes |->
        Over(tr.offset_stack[tr.height][a] + 2 * tr.two_exp_minus_height - tr.origin[a],
             tr.direction[a])])

\* lines 131-138: an empty node is left through its far side
VoxelEmpty ==
    /\ InLoop
    /\ NodeGet(trav.node_stack[trav.height]).kind = "Empty"
    /\ trav' = [trav EXCEPT !.t = ExitTime(trav),
                            !.height = trav.height - 1,
                            !.two_exp_minus_height = 2 * trav.two_exp_minus_height]
    /\ UNCHANGED <<octree, v_args, v_ret, v_pc>>

\* line 140: assert_ne!(enter_dir, BVec3::FALSE)
AssertEntered(enter_dir) == enter_dir /= <<FALSE, FALSE, FALSE>>

\* DVec3::select(enter_dir, -d_sign, DVec3::ZERO)
VoxelNormal(enter_dir, d_sign) == [a \in Axes |-> IF enter_dir[a] THEN -d_sign[a] ELSE 0]

\* lines 139-147: a filled leaf is a hit
VoxelMaterial ==
    /\ InLoop
    /\ NodeGet(trav.node_stack[trav.height]).kind = "Material"
    /\ LET idx == NodeGet(trav.node_stack[trav.height]).index
       IN  IF ~AssertEntered(trav.enter_dir) \/ idx >= octree.materials
           THEN v_pc' = "panic" /\ UNCHANGED v_ret
           ELSE /\ v_ret' = [some |-> TRUE, t |-> trav.t,
                             normal |-> VoxelNormal(trav.enter_dir, trav.d_sign),
                             geo_normal |-> VoxelNormal(trav.enter_dir, trav.d_sign),
                             material |-> idx]
                /\ v_pc' = "done"
    /\ UNCHANGED <<octree, v_args, trav>>

\* lines 148-175: an internal node is left, or the child holding the ray is entered
VoxelInternal ==
    /\ InLoop
    /\ NodeGet(trav.node_stack[trav.height]).kind = "Internal"
    /\ LET idx    == NodeGet(trav.node_stack[trav.height]).index
           height == trav.height
           scale  == trav.two_exp_minus_height
           here   == trav.offset_stack[height]
           t_exit == ExitTime(trav)
           t_enter == MaxElement3([a \in Axes |->
                         Over(here[a] - trav.origin[a], trav.direction[a])])
           t_midplanes == [a \in Axes |->
                             Over(here[a] + scale - trav.origin[a], trav.direction[a])]
           child  == [a \in Axes |-> t_midplanes[a] <= trav.t]
       IN  IF trav.t = t_exit
           THEN /\ trav' = [trav EXCEPT !.height = height - 1,
                                        !.two_exp_minus_height = 2 * scale]
                /\ UNCHANGED v_pc
           ELSE IF idx >= Len(octree.nodes) \/ height + 1 >= StackSize
           THEN v_pc' = "panic" /\ UNCHANGED trav
           ELSE /\ trav' = [trav EXCEPT
                              !.enter_dir = IF trav.t /= t_enter
                                            THEN [a \in Axes |-> t_midplanes[a] = trav.t]
                                            ELSE trav.enter_dir,
                              !.offset_stack[height + 1] =
                                  [a \in Axes |-> here[a] + (IF child[a] THEN scale ELSE 0)],
                              !.node_stack[height + 1] =
                                  octree.nodes[idx + 1][Bitmask(child, trav.flip)],
                              !.height = height + 1,
                              !.two_exp_minus_height = scale \div 2]
                /\ UNCHANGED v_pc
    /\ UNCHANGED <<octree, v_args, v_ret>>

(***************************************************************************)
(* The viewer (src/viewer/src/main.rs, tonemap.rs).  The event loop runs    *)
(* one handler at a time: a frame (WindowEvent::RedrawRequested), in which  *)
(* the user changes at most one widget, or a user event, which carries the  *)
(* image computed by a tonemap thread.  A tonemapped image is named by what *)
(* it was computed from: the image, the algorithm and the slider position   *)
(* of the options cloned when the thread was spawned.                       *)
(***************************************************************************)
\* images.len()
NumImages == 2

\* the calls of process made by a run
MaxJobs == 3

\* the positions of a slider of the options
MaxLevel == 1

ImageIds == 0..(NumImages - 1)

\* TONEMAPPERS: 0 is Tonemapper::None, 1 is Tonemapper::Krawczyk2005
Algorithms == 0..1

Levels == 0..MaxLevel

\* the texture of Viewer::new, before any upload
Blank == [image |-> -1, mapper |-> 0, level |-> 0]

\* TonemapOptions::new
TonemapNew == [none |-> 0, krawczyk_2005 |-> 0, selected |-> 1, needs_update |-> TRUE]

\* mapper.process(&image) of the options cloned by TonemapOptions::process
Tonemapped(tm, img) ==
    [image |-> img, mapper |-> tm.selected,
     level |-> IF tm.selected = 0 THEN tm.none ELSE tm.krawczyk_2005]

\* TonemapOptions::process: the options after the call
Processed(tm) == [tm EXCEPT !.needs_update = FALSE]

\* the thread spawned by process and the record of its start
Spawn(tm, img) ==
    /\ Len(launched) < MaxJobs
    /\ jobs' = jobs \cup {[id |-> Len(launched) + 1, out |-> Tonemapped(tm, img)]}
    /\ launched' = Append(launched, Tonemapped(tm, img))

\* what the user does to the widgets of one frame
UserInputs ==
    {[widget |-> "none", value |-> 0]}
    \cup {[widget |-> "image", value |-> i] : i \in ImageIds}
    \cup {[widget |-> "algorithm", value |-> a] : a \in Algorithms}
    \cup {[widget |-> "slider", value |-> l] : l \in Levels}

\* the options after the widgets of TonemapOptions::ui, lines 45-56
Widgets(tm, input) ==
    LET combo == IF input.widget = "algorithm" THEN input.value ELSE tm.selected
        shown == [tm EXCEPT !.selected = combo,
                            !.needs_update = tm.needs_update \/ combo /= tm.selected]
        level == IF shown.selected = 0 THEN shown.none ELSE shown.krawczyk_2005
        moved == input.widget = "slider" /\ input.value /= level
    IN  IF ~moved THEN shown
        ELSE IF shown.selected = 0
        THEN [shown EXCEPT !.none = input.value, !.needs_update = TRUE]
        ELSE [shown EXCEPT !.krawczyk_2005 = input.value, !.needs_update = TRUE]

\* WindowEvent::RedrawRequested, main.rs 211-317, with TonemapOptions::ui
Frame(input) ==
    /\ tonemappers /= << >>
    /\ LET changed == NumImages > 1 /\ input.widget = "image" /\ input.value /= selected
           now     == IF changed THEN input.value ELSE selected
           waiting == tonemappers[now].needs_update
           drawn   == Widgets(tonemappers[now], input)
       IN  /\ selected' = now
           /\ IF changed
              THEN \* refresh
                   /\ Spawn(tonemappers[now], now)
                   /\ tonemappers' = [tonemappers EXCEPT ![now] = Processed(@)]
              ELSE IF ~waiting /\ drawn.needs_update
              THEN /\ Spawn(drawn, now)
                   /\ tonemappers' = [tonemappers EXCEPT ![now] = Processed(drawn)]
              ELSE /\ tonemappers' = [tonemappers EXCEPT ![now] = drawn]
                   /\ UNCHANGED <<jobs, launched>>
    /\ frame' = 1 - frame
    /\ UNCHANGED <<mailbox, texture>>

Redraw == \E input \in UserInputs : Frame(input)

\* a frame in which the user touches nothing
IdleFrame == Frame([widget |-> "none", value |-> 0])

\* the closure of a tonemap thread: proxy.send_event(mapper.process(&image))
JobFinish ==
    \E job \in jobs :
        /\ jobs' = jobs \ {job}
        /\ mailbox' = Append(mailbox, job.out)
        /\ UNCHANGED <<selected, tonemappers, texture, launched, frame>>

\* App::user_event, main.rs 159-162, with TonemapOptions::updated
UserEvent ==
    /\ mailbox /= << >>
    /\ texture' = Head(mailbox)
    /\ mailbox' = Tail(mailbox)
    /\ IF tonemappers[selected].needs_update
       THEN /\ Spawn(tonemappers[selected], selected)
            /\ tonemappers' = [tonemappers EXCEPT ![selected] = Processed(@)]
       ELSE UNCHANGED <<tonemappers, jobs, launched>>
    /\ UNCHANGED <<selected, frame>>

\* App::new
ViewerInit ==
    /\ selected = 0
    /\ tonemappers = [i \in ImageIds |-> TonemapNew]
    /\ jobs = {}
    /\ mailbox = << >>
    /\ texture = Blank
    /\ launched = << >>
    /\ frame = 0

(***************************************************************************)
(* Specifications.                                                         *)
(***************************************************************************)
\* the parts of the state a specification leaves at rest
BvhIdle ==
    /\ objs = << >>
    /\ ray = [origin |-> <<0, 0, 0>>, direction |-> <<1, 0, 0>>]
    /\ nodes = << >>
    /\ work = << >>
    /\ stack = << >>
    /\ closest = NoHit
    /\ t_hit = TInf
    /\ b_pc = "idle"

DriverIdle == DriverInit /\ S = 0

ObjectsIdle ==
    /\ object = [kind |-> "none"]
    /\ probe = [origin |-> <<0, 0, 0>>, direction |-> <<1, 0, 0>>]
    /\ result = None
    /\ o_pc = "idle"

MediumIdle ==
    /\ medium = [kind |-> "vacuum"]
    /\ m_lambdas = <<4, 4, 4, 4>>
    /\ m_pos = <<0, 0, 0>>
    /\ majorant = R(0)
    /\ absorption = Splat(R(0))
    /\ scattering = Splat(R(0))
    /\ m_pc = "idle"

WalkIdle ==
    /\ w_scene = [objects |-> << >>, lights |-> << >>]
    /\ w_pos = [x |-> 0, off |-> 0]
    /\ w_dir = 1
    /\ w_medium = Vacuum
    /\ throughput = One4
    /\ w_radiance = Zero4
    /\ secondary_terminated = FALSE
    /\ bounces = 0
    /\ specular_bounce = TRUE
    /\ w_hit = Miss
    /\ hit_pos = [x |-> 0, off |-> 0]
    /\ old_dir = 1
    /\ w_t = 0
    /\ w_p = [x |-> 0, off |-> 0]
    /\ w_mp = NoProperties
    /\ w_majorant = R(0)
    /\ w_sample = NoSample
    /\ raycasts = 0
    /\ returned = Zero4
    /\ w_pc = "idle"

CallsIdle ==
    /\ call = [fn |-> "none"]
    /\ ret = [panic |-> FALSE, value |-> 0]
    /\ c_pc = "idle"

VoxelIdle ==
    /\ octree = [root |-> {}, nodes |-> << >>, materials |-> 0]
    /\ v_args = [origin |-> <<0, 0, 0>>, direction |-> <<1, 1, 1>>, max_t |-> 0]
    /\ trav = NoLocals
    /\ v_ret = VoxelNone
    /\ v_pc = "idle"

\* no viewer runs
ViewerIdle ==
    /\ selected = 0
    /\ tonemappers = << >>
    /\ jobs = {}
    /\ mailbox = << >>
    /\ texture = Blank
    /\ launched = << >>
    /\ frame = 0

notDriver ==
    <<welfordVars, bvhVars, objectVars, mediumVars, walkVars, callVars, voxelVars, viewerVars>>

notWelford ==
    <<driverVars, bvhVars, objectVars, mediumVars, walkVars, callVars, voxelVars, viewerVars>>

notBvh ==
    <<driverVars, welfordVars, objectVars, mediumVars, walkVars, callVars, voxelVars, viewerVars>>

notObjects ==
    <<driverVars, welfordVars, bvhVars, mediumVars, walkVars, callVars, voxelVars, viewerVars>>

notMedium ==
    <<driverVars, welfordVars, bvhVars, objectVars, walkVars, callVars, voxelVars, viewerVars>>

notWalk ==
    <<driverVars, welfordVars, bvhVars, objectVars, mediumVars, callVars, voxelVars, viewerVars>>

notCalls ==
    <<driverVars, welfordVars, bvhVars, objectVars, mediumVars, walkVars, voxelVars, viewerVars>>

notVoxel ==
    <<driverVars, welfordVars, bvhVars, objectVars, mediumVars, walkVars, callVars, viewerVars>>

notViewer ==
    <<driverVars, welfordVars, bvhVars, objectVars, mediumVars, walkVars, callVars, voxelVars>>

\* the render driver and its workers
Init ==
    DriverInit /\ WelfordInit /\ BvhIdle /\ ObjectsIdle /\ MediumIdle /\ WalkIdle
    /\ CallsIdle /\ VoxelIdle /\ ViewerIdle

Next ==
    \/ DriverLoop /\ UNCHANGED notDriver
    \/ (\E w \in Workers, p \in Pixels : Take(w, p)) /\ UNCHANGED notDriver
    \/ (\E w \in Workers : SampleStep(w)) /\ UNCHANGED notDriver
    \/ (\E w \in Workers : Finish(w)) /\ UNCHANGED notDriver
    \/ Join /\ UNCHANGED notDriver
    \/ Save /\ UNCHANGED notDriver

Spec == Init /\ [][Next]_vars

\* one accumulator fed an arbitrary stream
WelfordInitAll ==
    WelfordInit /\ DriverIdle /\ BvhIdle /\ ObjectsIdle /\ MediumIdle /\ WalkIdle
    /\ CallsIdle /\ VoxelIdle /\ ViewerIdle

WelfordStep == (\E v \in StreamVals : Accumulate(v)) /\ UNCHANGED notWelford

SpecWelford == WelfordInitAll /\ [][WelfordStep]_vars

\* a BVH built over a scene of spheres, then one ray cast through it
BvhInitAll ==
    BvhInit /\ DriverIdle /\ WelfordInit /\ ObjectsIdle /\ MediumIdle /\ WalkIdle
    /\ CallsIdle /\ VoxelIdle /\ ViewerIdle

BvhNext ==
    \/ BuildStep /\ UNCHANGED notBvh
    \/ RaycastStep /\ UNCHANGED notBvh
    \/ RaycastReturn /\ UNCHANGED notBvh

SpecBvh == BvhInitAll /\ [][BvhNext]_vars

\* one call of raycast on one object
ObjectsInitAll ==
    ObjectsInit /\ DriverIdle /\ WelfordInit /\ BvhIdle /\ MediumIdle /\ WalkIdle
    /\ CallsIdle /\ VoxelIdle /\ ViewerIdle

ObjectsNext ==
    \/ SphereCall /\ UNCHANGED notObjects
    \/ TriangleCall /\ UNCHANGED notObjects
    \/ TransformCall /\ UNCHANGED notObjects

SpecObjects == ObjectsInitAll /\ [][ObjectsNext]_vars

\* the coefficients of one medium read at one position
MediumInitAll ==
    MediumInit /\ DriverIdle /\ WelfordInit /\ BvhIdle /\ ObjectsIdle /\ WalkIdle
    /\ CallsIdle /\ VoxelIdle /\ ViewerIdle

MediumNext ==
    \/ CallMajorant /\ UNCHANGED notMedium
    \/ CallAbsorption /\ UNCHANGED notMedium
    \/ CallScattering /\ UNCHANGED notMedium

SpecMedium == MediumInitAll /\ [][MediumNext]_vars

\* one call of path_trace
WalkInitAll ==
    WalkInit /\ DriverIdle /\ WelfordInit /\ BvhIdle /\ ObjectsIdle /\ MediumIdle
    /\ CallsIdle /\ VoxelIdle /\ ViewerIdle

WalkNext ==
    \/ LoopHead /\ UNCHANGED notWalk
    \/ VolumeStep /\ UNCHANGED notWalk
    \/ Surface /\ UNCHANGED notWalk
    \/ NextEvent /\ UNCHANGED notWalk
    \/ BrdfSample /\ UNCHANGED notWalk
    \/ Advance /\ UNCHANGED notWalk
    \/ Roulette /\ UNCHANGED notWalk
    \/ Return /\ UNCHANGED notWalk

SpecWalk == WalkInitAll /\ [][WalkNext]_vars

\* the first rays of the same walks
ShortWalkNext ==
    \/ ShortLoopHead /\ UNCHANGED notWalk
    \/ VolumeStep /\ UNCHANGED notWalk
    \/ Surface /\ UNCHANGED notWalk
    \/ NextEvent /\ UNCHANGED notWalk
    \/ BrdfSample /\ UNCHANGED notWalk
    \/ Advance /\ UNCHANGED notWalk
    \/ Roulette /\ UNCHANGED notWalk
    \/ Return /\ UNCHANGED notWalk

SpecShortWalk == WalkInitAll /\ [][ShortWalkNext]_vars

\* the viewer's event loop and its tonemap threads
ViewerInitAll ==
    ViewerInit /\ DriverIdle /\ WelfordInit /\ BvhIdle /\ ObjectsIdle /\ MediumIdle /\ WalkIdle
    /\ CallsIdle /\ VoxelIdle

ViewerNext ==
    \/ Redraw /\ UNCHANGED notViewer
    \/ JobFinish /\ UNCHANGED notViewer
    \/ UserEvent /\ UNCHANGED notViewer

SpecViewer == ViewerInitAll /\ [][ViewerNext]_vars

\* the same, where a frame is drawn again and again (main.rs 316), every
\* thread ends and every event sent is handled; the user need never act
SpecViewerFair ==
    /\ ViewerInitAll /\ [][ViewerNext]_vars
    /\ WF_vars(IdleFrame /\ UNCHANGED notViewer)
    /\ WF_vars(JobFinish /\ UNCHANGED notViewer)
    /\ WF_vars(UserEvent /\ UNCHANGED notViewer)

\* one call of VoxelOctree::raycast
VoxelInitAll ==
    VoxelInit /\ DriverIdle /\ WelfordInit /\ BvhIdle /\ ObjectsIdle /\ MediumIdle /\ WalkIdle
    /\ CallsIdle /\ ViewerIdle

VoxelNext ==
    \/ VoxelEnter /\ UNCHANGED notVoxel
    \/ VoxelLeave /\ UNCHANGED notVoxel
    \/ VoxelEmpty /\ UNCHANGED notVoxel
    \/ VoxelMaterial /\ UNCHANGED notVoxel
    \/ VoxelInternal /\ UNCHANGED notVoxel

SpecVoxel == VoxelInitAll /\ [][VoxelNext]_vars

\* the same call, which keeps running while it has a step to take
SpecVoxelFair == VoxelInitAll /\ [][VoxelNext]_vars /\ WF_vars(VoxelNext)

\* long walks between mirrors in a vacuum: no medium is ever entered, so the
\* tracking loop has no step to take
BouncesInitAll ==
    BouncesInit /\ DriverIdle /\ WelfordInit /\ BvhIdle /\ ObjectsIdle /\ MediumIdle
    /\ CallsIdle /\ VoxelIdle /\ ViewerIdle

BouncesNext ==
    \/ LongLoopHead /\ UNCHANGED notWalk
    \/ Surface /\ UNCHANGED notWalk
    \/ NextEvent /\ UNCHANGED notWalk
    \/ BrdfSample /\ UNCHANGED notWalk
    \/ Advance /\ UNCHANGED notWalk
    \/ Roulette /\ UNCHANGED notWalk
    \/ Return /\ UNCHANGED notWalk

SpecBounces == BouncesInitAll /\ [][BouncesNext]_vars

\* the same call, which keeps running while it has a step to take
SpecWalkFair == WalkInitAll /\ [][WalkNext]_vars /\ WF_vars(WalkNext)

\* one call of a function that keeps no state
CallsInitAll ==
    CallsInit /\ DriverIdle /\ WelfordInit /\ BvhIdle /\ ObjectsIdle /\ MediumIdle /\ WalkIdle
    /\ VoxelIdle /\ ViewerIdle

CallsNext ==
    \/ CallBrdfSample /\ UNCHANGED notCalls
    \/ CallSpectrumSample /\ UNCHANGED notCalls
    \/ CallRenderLambdas /\ UNCHANGED notCalls
    \/ CallNodeGet /\ UNCHANGED notCalls
    \/ CallSampleLight /\ UNCHANGED notCalls
    \/ CallTransmittance /\ UNCHANGED notCalls

SpecCalls == CallsInitAll /\ [][CallsNext]_vars

(***************************************************************************)
(* Reference values for the accumulator, computed from the multiset.       *)
(***************************************************************************)
RECURSIVE BagCount(_, _)
BagCount(bag, vals) ==
    IF vals = {} THEN 0
    ELSE LET v == CHOOSE x \in vals : TRUE
         IN  bag[v] + BagCount(bag, vals \ {v})

RECURSIVE BagSum(_, _)
BagSum(bag, vals) ==
    IF vals = {} THEN Vec3Zero
    ELSE LET v == CHOOSE x \in vals : TRUE
         IN  VAdd(VScale(R(bag[v]), v), BagSum(bag, vals \ {v}))

BagMean(bag) == VDivS(BagSum(bag, DOMAIN bag), R(BagCount(bag, DOMAIN bag)))

RECURSIVE BagSqDev(_, _, _)
BagSqDev(bag, vals, mean) ==
    IF vals = {} THEN Vec3Zero
    ELSE LET v == CHOOSE x \in vals : TRUE
             dev == VSub(v, mean)
         IN  VAdd(VScale(R(bag[v]), VMul(dev, dev)), BagSqDev(bag, vals \ {v}, mean))

(***************************************************************************)
(* Claims.                                                                 *)
(***************************************************************************)
\* the primitives the ray hits, and the smallest distance among them
HitSet == { i \in DOMAIN objs : SphereRaycast(objs[i], ray.origin, ray.direction).some }

HitT(i) == SphereRaycast(objs[i], ray.origin, ray.direction).t

ClosestSet == { i \in HitSet : \A k \in HitSet : HitT(i) <= HitT(k) }

\* C1: Bvh::raycast returns a hit exactly when the linear scan over the
\* primitives returns one, with the same distance t, and the same primitive
\* whenever the closest primitive is unique.
C1_BvhEqualsLinearScan ==
    b_pc = "done" =>
        LET lin == SceneRaycast(objs, ray)
        IN  /\ closest.some = lin.some
            /\ closest.t = lin.t
            /\ Cardinality(ClosestSet) = 1 => closest.index = lin.index

\* C2: after accumulate_sample has been applied to x_1..x_n (n >= 1), count = n,
\* mean is the arithmetic mean, m2 is the sum of squared deviations from it and,
\* for n >= 2, sterr_sq is m2/(n(n-1)): all functions of the multiset of samples
\* alone, so independent of the order of accumulation.
C2_WelfordClosedForm ==
    LET n == BagCount(seen, DOMAIN seen)
    IN  /\ px.count = n
        /\ n >= 1 => /\ px.mean = BagMean(seen)
                     /\ px.m2 = BagSqDev(seen, DOMAIN seen, BagMean(seen))
        /\ n >= 2 => SterrSq(px) =
                        VDivS(BagSqDev(seen, DOMAIN seen, BagMean(seen)), R(n * (n - 1)))

C2_Witness ==
    /\ px.count = MaxSamples
    /\ seen[V3(1, 2, 0)] >= 1
    /\ seen[V3(4, 0, 3)] >= 1
    /\ seen[V3(-2, 1, 1)] >= 1
    /\ px.m2 /= Vec3Zero

\* C3: during render no two workers hold the same pixel, every pixel is written
\* by one worker only, and when render returns every pixel has been written by
\* exactly one worker and its count has grown by exactly `samples`.
C3_ExclusivePixels ==
    /\ \A w1, w2 \in Workers : (w1 /= w2 /\ cur[w1] /= 0) => cur[w1] /= cur[w2]
    /\ \A p \in Pixels : Cardinality(writers[p]) <= 1
    /\ \A p \in Pixels : \A w \in writers[p] : task[p] = "done" \/ cur[w] = p
    /\ pc = "save" => \A p \in Pixels : /\ Cardinality(writers[p]) = 1
                                        /\ film[p].count = base[p] + samples

C3_Witness ==
    /\ pc = "save"
    /\ samples >= 2
    /\ writers[1] /= writers[2]

\* C4: no pixel's mean or m2 is ever NaN: a NaN radiance is replaced by zero
\* before it is accumulated.
C4_NoNaNInFilm ==
    \A p \in Pixels : ~VHasNaN(film[p].mean) /\ ~VHasNaN(film[p].m2)

\* C7: the batch loop never underflows to_render - last, every batch it renders
\* has a positive size and a target above the samples rendered so far, the loop
\* is over after at most S batches (j <= S + 1), and when it exits the samples
\* rendered are S.
C7_BatchLoop ==
    /\ pc /= "underflow"
    /\ pc \in {"render", "save"} => samples >= 1
    /\ pc = "render" => last < to_render /\ to_render <= S
    /\ j <= S + 1
    /\ last <= S
    /\ pc = "done" => last = S

C7_Witness == pc = "done" /\ S = MaxBudget /\ j >= 5

\* C8: every checkpoint is written from a film whose pixels all hold the same
\* count, the samples rendered so far; while a checkpoint is being written no
\* closure call is running and no batch is partially applied.
C8_CheckpointConsistent ==
    /\ \A p \in Pixels : ckpt.counts[p] = ckpt.label
    /\ ckpt.label <= last
    /\ pc = "save" => /\ \A p \in Pixels : film[p].count = last
                      /\ \A w \in Workers : cur[w] = 0
                      /\ \A p \in Pixels : task[p] = "done"
    /\ pc = "loop" => ckpt.label = last

C8_Witness == ckpt.label >= 3 /\ pc = "render" /\ \E p \in Pixels : iter[p] = 1

\* the primitive indices held by the leaves built so far and by the slices of
\* the pending calls, with multiplicity
LeafIds == { k \in DOMAIN nodes : nodes[k].leaf }

Holders(i) ==
    Cardinality({ k \in LeafIds : nodes[k].index = i })
    + Cardinality({ <<f, q>> \in (DOMAIN work) \X (1..MaxObjs + 1) :
                      q \in DOMAIN work[f].idx /\ work[f].idx[q] = i })

\* C9: Bvh::build over n >= 1 primitives never runs build_bvh_node on an empty
\* slice, makes at most 2n - 1 calls (so it terminates), and produces a binary
\* tree of 2n - 1 nodes in which every leaf holds one primitive index, every
\* index appears in exactly one leaf and every inner node has two subtrees.
C9_BvhTree ==
    LET n == Len(objs)
    IN  /\ b_pc /= "panic"
        /\ \A f \in DOMAIN work : Len(work[f].idx) >= 1
        /\ \A i \in 1..n : Holders(i) = 1
        /\ Cardinality(DOMAIN nodes) + Len(work) <= 2 * n - 1
        /\ b_pc \in {"cast", "done"} =>
              /\ work = << >>
              /\ 1 \in DOMAIN nodes
              /\ Cardinality(DOMAIN nodes) = 2 * n - 1
              /\ \A k \in DOMAIN nodes :
                    /\ nodes[k].leaf =>
                          /\ nodes[k].index \in 1..n
                          /\ 2 * k \notin DOMAIN nodes
                          /\ 2 * k + 1 \notin DOMAIN nodes
                    /\ ~nodes[k].leaf => 2 * k \in DOMAIN nodes /\ 2 * k + 1 \in DOMAIN nodes
                    /\ k /= 1 => k \div 2 \in DOMAIN nodes /\ ~nodes[k \div 2].leaf
              /\ \A i \in 1..n : Cardinality({ k \in LeafIds : nodes[k].index = i }) = 1

C9_Witness ==
    /\ b_pc = "cast"
    /\ Len(objs) = MaxObjs
    /\ objs[1].origin = objs[2].origin
    /\ objs[1].origin /= objs[3].origin

\* the vector n has length one
IsUnit(n) == n.q > 0 /\ IDot(n.v, n.v) = n.q

\* C10: every hit returned by Sphere::raycast, Triangle::raycast and
\* Transform::raycast carries a shading normal and a geometric normal of unit length
C10_UnitNormals ==
    (o_pc = "returned" /\ result.some)
        => (IsUnit(result.normal) /\ IsUnit(result.geo_normal))

\* C6: for every medium, wavelength quadruple and position of the medium's
\* domain, absorption + scattering <= majorant in every component
C6_MajorantContract ==
    m_pc = "done" => \A i \in 1..4 : FLe(FAdd(absorption[i], scattering[i]), majorant)

\* C5: once a BRDF sample has returned the zero direction, the walk makes no
\* further call of scene.raycast, changes neither throughput nor medium nor
\* radiance, and returns the radiance accumulated up to that sample
C5_ZeroDirectionEndsWalk ==
    [][ w_sample'.dir = 0 =>
          /\ w_pc' \in {"return", "done"}
          /\ UNCHANGED <<throughput, w_medium, w_radiance, raycasts, w_pos, w_dir>>
          /\ (w_pc' = "done" => returned' = w_radiance) ]_vars

\* a walk that has returned after a zero-direction sample drawn at its second
\* or a later surface, with radiance gathered before it
C5_Witness ==
    /\ w_pc = "done"
    /\ w_sample.dir = 0
    /\ raycasts >= 2
    /\ returned /= Zero4

\* C11: every BRDF sample flagged singular whose direction is not zero reports
\* pdf = 1 (smooth conductor, dielectric, thin dielectric).
C11_SingularPdfOne ==
    (c_pc = "returned" /\ call.fn = "Brdf::sample"
        /\ ret.value.singular /\ ret.value.dir /= 0)
        => ret.value.pdf = R(1)

\* C11 (amended): every BRDF sample flagged singular whose direction is not zero
\* reports as pdf the probability of the branch it took: 1 for the reflection of
\* a smooth conductor; for a dielectric the Fresnel reflectance at the hero
\* wavelength for the reflection and its complement for the refraction; for a
\* thin dielectric the same with the reflectance of the slab. At normal
\* incidence the reflectance of an interface of relative index x is
\* ((x - 1) / (x + 1))^2 from either side, and that of the slab 2r / (1 + r).
C11_SingularPdfBranch ==
    (c_pc = "returned" /\ call.fn = "Brdf::sample"
        /\ ret.value.singular /\ ret.value.dir /= 0)
        => LET chance ==
                   IF call.brdf.kind = "conductor" THEN R(1)
                   ELSE LET x    == call.brdf.ior[1]
                            r    == FDiv(FMul(FSub(x, R(1)), FSub(x, R(1))),
                                         FMul(FAdd(x, R(1)), FAdd(x, R(1))))
                            refl == IF call.brdf.kind = "dielectric" THEN r
                                    ELSE FDiv(FMul(R(2), r), FAdd(R(1), r))
                        IN  IF ret.value.dir = call.outgoing
                            THEN FSub(R(1), refl) ELSE refl
           IN  /\ ret.value.pdf = chance
               /\ FLt(R(0), ret.value.pdf)
               /\ FLe(ret.value.pdf, R(1))

C11_Witness ==
    /\ c_pc = "returned" /\ call.fn = "Brdf::sample"
    /\ call.brdf.kind = "dielectric" /\ call.brdf.ior = Splat(Frac(3, 2))
    /\ ret.value.singular /\ ret.value.terminate_secondary
    /\ ret.value.dir = call.outgoing
    /\ ret.value.pdf = Frac(24, 25)

\* C12: PiecewiseLinearSpectrum::sample returns 0 (and does not fail) for a
\* wavelength below the first or above the last table entry, and the linear
\* interpolation of the two bracketing entries for a wavelength in the table range.
C12_PiecewiseLinear ==
    (c_pc = "returned" /\ call.fn = "PiecewiseLinearSpectrum::sample") =>
        LET data == call.data
            n    == Len(data)
            l    == call.lambda
            outside == n = 0 \/ l < data[1][1] \/ l > data[n][1]
        IN  /\ ~ret.panic
            /\ outside => ret.value = R(0)
            /\ ~outside =>
                  \E k \in 1..(n - 1) :
                      /\ data[k][1] <= l /\ l <= data[k + 1][1]
                      /\ data[k][1] < data[k + 1][1]
                      /\ ret.value =
                            Frac(data[k][2] * (data[k + 1][1] - l)
                                   + data[k + 1][2] * (l - data[k][1]),
                                 data[k + 1][1] - data[k][1])

\* C13: for every hero wavelength of [360, 830) the quadruple built by render is
\* the hero followed by hero + k * 470 / 4 (k = 1, 2, 3), each wrapped modulo 470
\* into the visible range; the four wavelengths lie in [360, 830) and are
\* pairwise distinct.
C13_StratifiedLambdas ==
    (c_pc = "returned" /\ call.fn = "render::lambdas") =>
        LET v     == ret.value
            delta == R(VisibleEnd - VisibleStart)
        IN  /\ v[1] = call.lambda
            /\ \A k \in 1..3 :
                  LET shifted == FAdd(call.lambda, FDiv(FMul(R(k), delta), R(4)))
                  IN  v[k + 1] \in {shifted, FSub(shifted, delta)}
            /\ \A i \in 1..4 : FLe(R(VisibleStart), v[i]) /\ FLt(v[i], R(VisibleEnd))
            /\ \A i, k \in 1..4 : i /= k => v[i] /= v[k]

\* a quadruple whose fourth wavelength wrapped around and whose second did not
C13_Witness ==
    /\ c_pc = "returned" /\ call.fn = "render::lambdas"
    /\ FLt(ret.value[4], ret.value[1])
    /\ FLt(ret.value[1], ret.value[2])
    /\ ret.value[3].d = 2

\* C14: Node::get partitions the 32-bit values: 0xFFFFFFFF decodes to Empty, every
\* other value with bit 31 set to Material(the value with bit 31 cleared), every
\* value with bit 31 clear to Internal(the value); no value decodes to two kinds.
C14_NodeDecoding ==
    (c_pc = "returned" /\ call.fn = "Node::get") =>
        LET bits == call.node
            kind == ret.value.kind
        IN  /\ bits = 0..31 => ret.value = Empty
            /\ (31 \in bits /\ bits /= 0..31) =>
                  ret.value = Material(BitsValue(bits \ {31}))
            /\ 31 \notin bits => ret.value = Internal(BitsValue(bits))
            /\ kind = "Empty" <=> bits = 0..31
            /\ kind = "Material" <=> (31 \in bits /\ bits /= 0..31)
            /\ kind = "Internal" <=> 31 \notin bits

\* 0xFFFFFFFE, the value next to the empty node, decodes to the material 0x7FFFFFFE
C14_Witness ==
    /\ c_pc = "returned" /\ call.fn = "Node::get"
    /\ call.node = 1..31
    /\ ret.value = Material(2147483646)

\* C15: Scene::sample_light returns None exactly when the scene has no lights;
\* otherwise, for every random value of [0, 1), it returns the light at index
\* floor(random * n), which is below n, with the probability 1 / n.
C15_UniformLight ==
    (c_pc = "returned" /\ call.fn = "Scene::sample_light") =>
        LET n == Len(call.lights)
            u == call.random
        IN  /\ ~ret.value.some <=> n = 0
            /\ n > 0 =>
                  \E i \in 0..(n - 1) :
                      /\ FLe(R(i), FMul(u, R(n))) /\ FLt(FMul(u, R(n)), R(i + 1))
                      /\ ret.value.light = call.lights[i + 1]
                      /\ ret.value.pdf = Frac(1, n)

\* the last of three lights is returned for a random value of [2/3, 1)
C15_Witness ==
    /\ c_pc = "returned" /\ call.fn = "Scene::sample_light"
    /\ Len(call.lights) = 3
    /\ FLe(Frac(2, 3), call.random)
    /\ ret.value.some /\ ret.value.light = call.lights[3]

\* C16 as stated: after every surface interaction of path_trace (reflection,
\* transmission, or passing a surface with no BRDF) the walk's medium is
\* material.enter_medium when the new direction points against the geometric
\* normal, and material.exit_medium otherwise.
C16_MediumAfterSurface ==
    [][ w_pc = "advance" =>
          w_medium' = IF w_dir * w_hit.geo_normal < 0 THEN w_hit.material.enter_medium
                      ELSE w_hit.material.exit_medium ]_vars

\* C16 as amended: after a surface interaction that takes the ray through the
\* surface (the old and the new direction on the same side of the geometric
\* normal: transmission, or passing a surface with no BRDF) the medium is
\* enter_medium when the new direction points against the geometric normal and
\* exit_medium otherwise; after a reflection the medium is unchanged.
C16_MediumAfterCrossing ==
    [][ w_pc = "advance" =>
          LET before == old_dir * w_hit.geo_normal
              after  == w_dir * w_hit.geo_normal
          IN  w_medium' = IF (before > 0) = (after > 0)
                          THEN (IF after < 0 THEN w_hit.material.enter_medium
                                ELSE w_hit.material.exit_medium)
                          ELSE w_medium ]_vars

\* a reflection inside a participating medium, off a material whose media are both
\* the vacuum: the walk is still in the participating medium
C16_Witness ==
    /\ w_pc = "roulette"
    /\ w_dir /= old_dir
    /\ Participating(w_medium)
    /\ w_hit.material.exit_medium = Vacuum /\ w_hit.material.enter_medium = Vacuum

\* C17: at every tentative collision of the tracking loop of path_trace (t < d)
\* the medium's absorption, scattering and emission are read at the collision
\* point p = pos + t * dir, not at the ray origin pos.
C17_PropertiesAtCollision ==
    [][ (w_pc = "volume" /\ TLess(Dist(w_t'), w_hit.t)) =>
          /\ w_p' = Along(w_pos, w_dir, Dist(w_t'))
          /\ w_mp' = WalkProperties(w_medium, w_p') ]_vars

\* C18: at the end of a surface iteration of the walk Russian roulette is played
\* exactly when the largest throughput component is below 1/2 or bounces > 20:
\* the walk then either stops or goes on with the throughput doubled, the
\* counter restarting from 0 when it had exceeded 20; otherwise the throughput
\* is kept and the counter is incremented.
C18_RouletteOnMax ==
    [][ w_pc = "roulette" =>
          LET play == FLt(MaxElement(throughput), Frac(1, 2)) \/ bounces > 20
          IN  IF play
              THEN \/ w_pc' = "return"
                   \/ /\ w_pc' = "head"
                      /\ throughput' = VScale(R(2), throughput)
                      /\ bounces' = (IF bounces > 20 THEN 0 ELSE bounces) + 1
              ELSE /\ w_pc' = "head"
                   /\ throughput' = throughput
                   /\ bounces' = bounces + 1 ]_vars

\* The walk was cut off by the bound on the number of rays of one walk.
Truncated == w_pc = "head" /\ raycasts = MaxRaycasts

\* C19: under fair scheduling of the walk's steps every invocation of path_trace
\* eventually returns (walks cut off by MaxRaycasts aside).
C19_EventuallyReturns == <>(w_pc = "done" \/ Truncated)

\* C20: secondary_terminated turns true only in the step that takes a BRDF sample
\* with terminate_secondary set, and a walk that starts tracking a participating
\* medium with secondary_terminated false keeps its throughput, stays
\* unterminated and uses the majorant over the four wavelengths.
C20_TerminationOnlyBySample ==
    [][ /\ (~secondary_terminated /\ secondary_terminated') =>
              (w_pc = "sample" /\ w_sample'.terminate_secondary)
        /\ (w_pc = "head" /\ w_pc' = "volume" /\ ~secondary_terminated) =>
              /\ throughput' = throughput
              /\ ~secondary_terminated'
              /\ w_majorant' = WalkMajorant(w_medium, FALSE) ]_vars

C22_LightAlongRayOnlyAtD ==
    [][ /\ (w_pc = "volume" /\ TLess(Dist(w_t'), w_hit.t)) =>
              \/ w_pc' = "return"
                  /\ w_radiance' = VAdd(w_radiance, VMul(throughput', w_mp'.emission))
              \/ w_pc' = "head"
                  /\ \/ w_scene.lights = << >> /\ w_radiance' = w_radiance
                     \/ \E sl \in SampleLight(w_scene) :
                          LET ps == VDivS(w_mp'.scattering, w_majorant)
                              tp == VMul(throughput, VDivS(ps, ps[1]))
                          IN  Returns(w_radiance') \in
                                Estimates(w_radiance,
                                          VMul(VMul(tp, Phase(w_medium)),
                                               LightSample(sl.light).emission),
                                          w_p', LightSample(sl.light), sl.pdf)
              \/ w_pc' = "panic"
              \/ w_pc' = "volume" /\ w_radiance' = w_radiance
        /\ (w_pc = "volume" /\ ~TLess(Dist(w_t'), w_hit.t)) => w_radiance' = w_radiance
        /\ (w_pc = "surface" /\ ~specular_bounce) =>
              w_radiance' = IF w_hit.some
                            THEN VAdd(w_radiance, VMul(throughput, w_hit.material.emission))
                            ELSE w_radiance
        /\ w_pc \in {"head", "sample", "advance", "roulette", "return"} =>
              w_radiance' = w_radiance ]_vars

\* an absorption on a specular ray that looks straight into the light
C22_Witness ==
    /\ w_pc = "return" /\ w_mp /= NoProperties
    /\ specular_bounce /\ w_hit.some
    /\ \E i \in 1..Len(w_scene.lights) :
          LightEmissionAnyDistance(w_scene.lights[i], w_dir, Dist(w_t)) /= Zero4

\* C23: specular_bounce is true on the camera ray; a volume scattering event
\* sets it to false, a BRDF sample sets it to the sample's singular flag, and
\* every other step (null collisions, surfaces without a BRDF, roulette) leaves
\* it unchanged, so that at a loop head it tells whether the last scattering
\* event, if any, was a singular BRDF sample.
C23_SpecularBounceTracksLastEvent ==
    /\ []((w_pc = "head" /\ raycasts = 0) => specular_bounce)
    /\ [][ IF w_pc = "volume" /\ w_pc' = "head"
           THEN ~specular_bounce'
           ELSE IF w_pc = "sample" /\ w_pc' = "advance"
           THEN specular_bounce' = w_sample'.singular
           ELSE specular_bounce' = specular_bounce ]_vars

\* a loop head after a singular BRDF sample and a later scattering event
C23_Witness ==
    /\ w_pc = "head" /\ ~specular_bounce
    /\ bounces >= 1 /\ w_sample /= NoSample /\ w_sample.singular

\* C24: transmittance returns zero whenever a surface with a BRDF lies inside
\* the segment, whatever BRDF-less boundaries come before it, and a call that
\* returns with no such surface inside the segment does not return zero.
C24_BlockedOnlyInsideSegment ==
    (c_pc = "returned" /\ call.fn = "transmittance") =>
        LET planes  == call.scene.objects
            blocked == \E i \in 1..Len(planes) :
                          /\ planes[i].material.brdf.kind /= "none"
                          /\ (planes[i].x - call.pos.x) * call.dir > 0
                          /\ TLess(Dist((planes[i].x - call.pos.x) * call.dir), call.d)
        IN  /\ blocked => ret = Returns(Zero4)
            /\ (~blocked /\ ~ret.panic) => ret.value /= Zero4

\* C28: at a surface whose material has no BRDF the walk keeps its direction,
\* specular_bounce, secondary_terminated and throughput and makes no next-event
\* estimate (radiance gains the light along the ray and the surface's emission
\* only); the origin moves to the hit point displaced by 1e-6 along the ray and
\* the medium becomes exit_medium when the ray leaves along the geometric
\* normal, enter_medium otherwise.
C28_NoBrdfPassesThrough ==
    [][ (w_pc \in {"surface", "advance"} /\ w_hit.some
            /\ w_hit.material.brdf.kind = "none") =>
          /\ w_dir' = w_dir
          /\ specular_bounce' = specular_bounce
          /\ secondary_terminated' = secondary_terminated
          /\ throughput' = throughput
          /\ w_pc = "surface" =>
                /\ w_pc' = "advance"
                /\ w_radiance' =
                     VAdd(IF specular_bounce
                          THEN VAdd(w_radiance,
                                    VMul(throughput, LightEmission(w_scene, w_dir, w_hit.t)))
                          ELSE w_radiance,
                          VMul(throughput, w_hit.material.emission))
          /\ w_pc = "advance" =>
                /\ w_pc' = "roulette"
                /\ w_radiance' = w_radiance
                /\ w_pos' = [x |-> hit_pos.x, off |-> hit_pos.off + w_dir]
                /\ w_medium' = IF w_dir * w_hit.geo_normal > 0
                               THEN w_hit.material.exit_medium
                               ELSE w_hit.material.enter_medium ]_vars

\* a walk from the vacuum that has just entered the fog through a boundary
C28_Witness ==
    /\ w_pc = "roulette" /\ raycasts = 1 /\ ~secondary_terminated
    /\ w_hit.some /\ w_hit.material.brdf.kind = "none"
    /\ w_medium = Fog /\ w_pos = [x |-> 2, off |-> 1] /\ throughput = One4

\* C27: at every loop head 0 <= bounces <= 21; an iteration that reaches the
\* roulette with bounces > 20 plays it (the walk stops, or goes on with the
\* throughput doubled and the counter restarted), and an iteration that plays
\* no roulette adds one to the counter, so no 22 surface iterations in a row
\* go without roulette.
C27_BouncesBounded ==
    /\ [](w_pc = "head" => (0 <= bounces /\ bounces <= 21))
    /\ [][ w_pc = "roulette" =>
             IF bounces > 20
             THEN \/ w_pc' = "return"
                  \/ w_pc' = "head" /\ bounces' = 1
                     /\ throughput' = VScale(R(2), throughput)
             ELSE \/ w_pc' = "return"
                  \/ w_pc' = "head" /\ bounces' = bounces + 1 ]_vars

\* the loop head after the 22nd reflection of a walk that never lost energy:
\* the roulette was played for the count alone, and survived
C27_Witness ==
    /\ w_pc = "head" /\ raycasts = 22 /\ bounces = 1
    /\ throughput = Splat(R(2))

\* C25: a traversal that reaches a filled leaf reports a hit, the assertion
\* enter_dir != FALSE never failing, also for an origin inside the cube or
\* inside a filled voxel; the normal reported is the unit vector -sign(dir)
\* along one single axis.
C25_FilledLeafHitsWithAxisNormal ==
    /\ v_pc /= "panic"
    /\ (v_pc = "done" /\ v_ret.some) =>
          \E a \in Axes :
              v_ret.normal = [b \in Axes |-> IF b = a THEN -trav.d_sign[a] ELSE 0]

\* the part of C25 that holds: a ray that starts outside the cube meets no
\* failed assertion, and the normal of its hit is -sign(dir) on every axis
\* whose plane the ray crosses at the parameter of the hit (one axis, or two or
\* three when the ray enters through an edge or a corner) and zero elsewhere
C25_OutsideOriginsHit ==
    (\E a \in Axes : v_args.origin[a] < 0 \/ v_args.origin[a] > CubeUnits) =>
        /\ v_pc /= "panic"
        /\ (v_pc = "done" /\ v_ret.some) =>
              /\ v_ret.normal /= <<0, 0, 0>>
              /\ \A a \in Axes : v_ret.normal[a] \in {0, -trav.d_sign[a]}
              /\ \A a \in Axes : v_ret.normal[a] /= 0 =>
                    (2 * (v_args.origin[a]) + v_ret.t * v_args.direction[a])
                        % (CubeUnits \div 2) = 0

\* C26: raycast terminates for every ray and every octree within the stack:
\* the call ends, with a hit or with None.
C26_RaycastTerminates == <>(v_pc = "done")

\* the part of C26 that holds: t never decreases, every iteration of the loop
\* moves one level down or one level up, a hit has t < max_t, and None is
\* returned once the stack is empty or t >= max_t (or at once, for a ray that
\* misses the cube); every call ends, be it by the failed assertion
C26_StepsAndExits ==
    /\ [](v_pc = "done" =>
            IF v_ret.some THEN v_ret.t < v_args.max_t /\ v_ret.t = trav.t
            ELSE trav = NoLocals \/ trav.height = 0 \/ trav.t >= v_args.max_t)
    /\ [][ (v_pc = "loop" /\ v_pc' = "loop") =>
              /\ trav'.t >= trav.t
              /\ trav'.height \in {trav.height - 1, trav.height + 1} ]_vars
    /\ <>(v_pc \in {"done", "panic"})

\* the job started last for image img, among those started so far
LatestFor(img) ==
    LET mine == {k \in 1..Len(launched) : launched[k].image = img}
    IN  launched[CHOOSE k \in mine : \A other \in mine : other <= k]

\* C29: once every tonemap job has completed and its event has been handled,
\* the texture shown is the result of the job started last for the image
\* selected; no older job and no job of another image has overwritten it.
C29_NewestJobDisplayed ==
    (/\ jobs = {} /\ mailbox = << >>
     /\ \E k \in 1..Len(launched) : launched[k].image = selected)
        => texture = LatestFor(selected)

\* the part of C29 that holds: the events are handled in the order in which
\* the threads ended, so with nothing left in flight the texture is the result
\* of some job that was started, or the blank texture if none was
C29_SomeJobDisplayed ==
    texture = Blank \/ \E k \in 1..Len(launched) : texture = launched[k]

\* C30: without any user interaction a tonemap job for the image selected at
\* the start is eventually started and its result uploaded.
C30_FirstImageTonemapped ==
    <>(launched /= << >> /\ texture /= Blank)

\* the initial options wait for an update that nothing starts: as long as no
\* job was started for it, an image's needs_update stays true
C30_WaitingForNoJob ==
    tonemappers /= << >> =>
        \A i \in ImageIds :
            (\A k \in 1..Len(launched) : launched[k].image /= i)
                => tonemappers[i].needs_update

====
